---- MODULE Spec2Model ----
(***************************************************************************)
(* Lattice-Boltzmann solver (LBMSimulation) and its driver (UIController). *)
(* Arrays are functions on the linear index i = x + y*xdim, as in the      *)
(* source.  Numbers are exact rationals <<num, den>> (den > 0, lowest      *)
(* terms); den = 0 encodes the non-finite values of JavaScript numbers:    *)
(* <<1,0>> = Infinity, <<-1,0>> = -Infinity, <<0,0>> = NaN.                *)
(***************************************************************************)
EXTENDS Integers, Sequences, FiniteSets, TLC

VARIABLES
    sim,      \* the LBMSimulation object: its fields, as a record
    old,      \* the LBMSimulation object as it was before the last call
    last,     \* the last call made: name, arguments, result
    fuel,     \* number of calls the behaviour may still make; Unlimited: any number
    ui,       \* the UIController object, its controls, and the callbacks it has scheduled
    calls,    \* the solver calls the driver has made: <<frame, name>>, oldest first
    twin      \* the LBMSimulation object of a second run, given the same calls as sim

vars == <<sim, old, last, fuel, ui, calls, twin>>

-----------------------------------------------------------------------------
(* Exact arithmetic on JavaScript numbers. *)

Abs(a) == IF a < 0 THEN -a ELSE a

Sign(a) == IF a < 0 THEN -1 ELSE IF a > 0 THEN 1 ELSE 0

RECURSIVE Gcd(_, _)
Gcd(a, b) == IF b = 0 THEN a ELSE Gcd(b, a % b)

\* n/d in lowest terms with a positive denominator; d = 0 gives +-Infinity or NaN
Q(n, d) ==
    IF d = 0 THEN <<Sign(n), 0>>
    ELSE LET g == Gcd(Abs(n), Abs(d))
             s == IF d < 0 THEN -1 ELSE 1
         IN  <<s * (n \div g), s * (d \div g)>>

Num(k) == <<k, 1>>

Zero == Num(0)

One == Num(1)

NaN == <<0, 0>>

IsNaN(a) == a[2] = 0 /\ a[1] = 0

IsInf(a) == a[2] = 0 /\ a[1] # 0

IsFinite(a) == a[2] # 0

RNeg(a) == <<-a[1], a[2]>>

RAdd(a, b) ==
    IF IsNaN(a) \/ IsNaN(b) THEN NaN
    ELSE IF IsInf(a) /\ IsInf(b) THEN (IF a[1] = b[1] THEN a ELSE NaN)
    ELSE IF IsInf(a) THEN a
    ELSE IF IsInf(b) THEN b
    ELSE LET g == Gcd(a[2], b[2])
         IN  Q(a[1] * (b[2] \div g) + b[1] * (a[2] \div g), (a[2] \div g) * b[2])

RSub(a, b) == RAdd(a, RNeg(b))

RMul(a, b) ==
    IF IsNaN(a) \/ IsNaN(b) THEN NaN
    ELSE IF IsInf(a) \/ IsInf(b)
         THEN (IF a[1] = 0 \/ b[1] = 0 THEN NaN ELSE <<Sign(a[1]) * Sign(b[1]), 0>>)
    ELSE LET g1 == Gcd(Abs(a[1]), b[2])
             g2 == Gcd(Abs(b[1]), a[2])
         IN  Q((a[1] \div g1) * (b[1] \div g2), (a[2] \div g2) * (b[2] \div g1))

RDiv(a, b) ==
    IF IsNaN(a) \/ IsNaN(b) THEN NaN
    ELSE IF IsInf(b) THEN (IF IsInf(a) THEN NaN ELSE Zero)
    ELSE IF IsInf(a) THEN <<a[1] * (IF b[1] < 0 THEN -1 ELSE 1), 0>>
    ELSE IF b[1] = 0 THEN <<Sign(a[1]), 0>>
    ELSE RMul(a, Q(b[2], b[1]))

\* a <= b, a < b, a > b as JavaScript compares numbers: false when either is NaN
RLe(a, b) ==
    /\ ~IsNaN(a) /\ ~IsNaN(b)
    /\ IF IsInf(a) THEN (a[1] < 0 \/ a = b)
       ELSE IF IsInf(b) THEN b[1] > 0
       ELSE a[1] * b[2] <= b[1] * a[2]

RLt(a, b) == RLe(a, b) /\ a # b

RGt(a, b) == RLt(b, a)

RECURSIVE RSum(_)
RSum(s) == IF s = << >> THEN Zero ELSE RAdd(s[1], RSum(Tail(s)))

-----------------------------------------------------------------------------
(* Typed arrays: a read outside the array yields undefined (NaN once it is *)
(* used as a number), a write outside the array is ignored.                *)

Rd(arr, i) == IF i \in DOMAIN arr THEN arr[i] ELSE NaN

Wr(arr, i, v) == IF i \in DOMAIN arr THEN [arr EXCEPT ![i] = v] ELSE arr

Size(xd, yd) == xd * yd

Idx(x, y, xd) == x + y * xd

\* loop ranges: for (k = a; k <= b; k++) and for (k = a; k >= b; k--)
Up(a, b) == [k \in 1..(b - a + 1) |-> a + k - 1]

Down(a, b) == [k \in 1..(a - b + 1) |-> a - k + 1]

\* the cells visited by "for y in ys: for x in xs", in order
Order(ys, xs) ==
    [k \in 1..(Len(ys) * Len(xs)) |->
        <<xs[((k - 1) % Len(xs)) + 1], ys[((k - 1) \div Len(xs)) + 1]>>]

\* for (c of cells) s = Body(s, c): a loop over cells that updates the object in place
\* the iterations lo..hi of a loop, in order. The range is halved so that the
\* evaluation stays shallow, and the state after the first half is bound as an element
\* of a singleton set so that it is computed once
RECURSIVE ForRange(_, _, _, _, _)
ForRange(Body(_, _), s, cells, lo, hi) ==
    IF lo > hi THEN s
    ELSE IF lo = hi THEN Body(s, cells[lo])
    ELSE LET m == (lo + hi) \div 2
         IN  CHOOSE r \in {ForRange(Body, t, cells, m + 1, hi) :
                              t \in {ForRange(Body, s, cells, lo, m)}} : TRUE

\* a loop whose iterations are the elements k, k+1, ... of cells, from state s0
ForEach(Body(_, _), s0, cells, k) ==
    CHOOSE r \in {ForRange(Body, s, cs, k, Len(cs)) : s \in {s0}, cs \in {cells}} : TRUE

-----------------------------------------------------------------------------
(* LBMSimulation *)

four9ths == Q(4, 9)

one9th == Q(1, 9)

one36th == Q(1, 36)

\* the literals 1.5, 4.5 and 3 of the equilibrium formulas
c15 == Q(3, 2)

c45 == Q(9, 2)

c3 == Num(3)

\* an omitted optional argument
Undefined == << >>

\* the number of tracers of the model (nTracers is 144 in the source)
TracerCount == 3

\* new LBMSimulation(xdim, ydim, pxPerSquare): zero-filled arrays
NewSim(xd, yd) ==
    LET zeros == [i \in 0..(Size(xd, yd) - 1) |-> Zero]
    IN  [xdim |-> xd, ydim |-> yd,
         n0 |-> zeros, nN |-> zeros, nS |-> zeros, nE |-> zeros, nW |-> zeros,
         nNE |-> zeros, nSE |-> zeros, nNW |-> zeros, nSW |-> zeros,
         rho |-> zeros, ux |-> zeros, uy |-> zeros, curl |-> zeros,
         barrier |-> [i \in 0..(Size(xd, yd) - 1) |-> 0],
         barrierCount |-> 0, barrierxSum |-> 0, barrierySum |-> 0,
         barrierFx |-> Zero, barrierFy |-> Zero,
         sensorX |-> 0, sensorY |-> 0,
         nTracers |-> TracerCount,
         tracerX |-> [k \in 0..(TracerCount - 1) |-> Zero],
         tracerY |-> [k \in 0..(TracerCount - 1) |-> Zero]]

\* the nine equilibrium populations, from the temporaries of setEquil and collide
EquilOf(ux3, uy3, ux2, uy2, uxuy2, u2, u215, one9thrho, one36thrho, four9thsrho) ==
    [n0 |-> RMul(four9thsrho, RSub(One, u215)),
     nE |-> RMul(one9thrho, RSub(RAdd(RAdd(One, ux3), RMul(c45, ux2)), u215)),
     nW |-> RMul(one9thrho, RSub(RAdd(RSub(One, ux3), RMul(c45, ux2)), u215)),
     nN |-> RMul(one9thrho, RSub(RAdd(RAdd(One, uy3), RMul(c45, uy2)), u215)),
     nS |-> RMul(one9thrho, RSub(RAdd(RSub(One, uy3), RMul(c45, uy2)), u215)),
     nNE |-> RMul(one36thrho,
                  RSub(RAdd(RAdd(RAdd(One, ux3), uy3), RMul(c45, RAdd(u2, uxuy2))), u215)),
     nSE |-> RMul(one36thrho,
                  RSub(RAdd(RSub(RAdd(One, ux3), uy3), RMul(c45, RSub(u2, uxuy2))), u215)),
     nNW |-> RMul(one36thrho,
                  RSub(RAdd(RAdd(RSub(One, ux3), uy3), RMul(c45, RSub(u2, uxuy2))), u215)),
     nSW |-> RMul(one36thrho,
                  RSub(RAdd(RSub(RSub(One, ux3), uy3), RMul(c45, RAdd(u2, uxuy2))), u215))]

\* the equilibrium populations for density r and velocity (vx, vy)
Equil(r, vx, vy) ==
    EquilOf(RMul(c3, vx), RMul(c3, vy), RMul(vx, vx), RMul(vy, vy),
            RMul(RMul(Num(2), vx), vy),
            RAdd(RMul(vx, vx), RMul(vy, vy)),
            RMul(c15, RAdd(RMul(vx, vx), RMul(vy, vy))),
            RMul(one9th, r), RMul(one36th, r), RMul(four9ths, r))

setEquilWrite_MomentsOnly(s, i, e, r, newux, newuy) ==
    [s EXCEPT !.rho = Wr(@, i, r), !.ux = Wr(@, i, newux), !.uy = Wr(@, i, newuy)]

\* the writes of setEquil at index i: the populations e, and rho, ux and uy
setEquilWrite(s, i, e, r, newux, newuy) ==
    [s EXCEPT !.n0 = Wr(@, i, e.n0),
              !.nE = Wr(@, i, e.nE), !.nW = Wr(@, i, e.nW),
              !.nN = Wr(@, i, e.nN), !.nS = Wr(@, i, e.nS),
              !.nNE = Wr(@, i, e.nNE), !.nSE = Wr(@, i, e.nSE),
              !.nNW = Wr(@, i, e.nNW), !.nSW = Wr(@, i, e.nSW),
              !.rho = Wr(@, i, r), !.ux = Wr(@, i, newux), !.uy = Wr(@, i, newuy)]

\* the density setEquil uses: newrho, or the cell's own when newrho is omitted
setEquilRho(s, i, newrho) == IF newrho = Undefined THEN Rd(s.rho, i) ELSE newrho

\* setEquil(x, y, newux, newuy, newrho?)
setEquil(s, x, y, newux, newuy, newrho) ==
    setEquilWrite(s, Idx(x, y, s.xdim),
                  Equil(setEquilRho(s, Idx(x, y, s.xdim), newrho), newux, newuy),
                  setEquilRho(s, Idx(x, y, s.xdim), newrho), newux, newuy)

initFluidCell_KeepsDensity(s, c, u0) ==
    LET t == setEquil(s, c[1], c[2], u0, Zero, Undefined)
    IN  [t EXCEPT !.curl = Wr(@, Idx(c[1], c[2], s.xdim), Zero)]

initFluidCell(s, c, u0) ==
    LET t == setEquil(s, c[1], c[2], u0, Zero, One)
    IN  [t EXCEPT !.curl = Wr(@, Idx(c[1], c[2], s.xdim), Zero)]

\* initFluid(u0)
initFluid(s, u0) ==
    LET Body(t, c) == initFluidCell(t, c, u0)
        t == ForEach(Body, s, Order(Up(0, s.ydim - 1), Up(0, s.xdim - 1)), 1)
    IN  [t EXCEPT !.sensorX = s.xdim \div 2, !.sensorY = s.ydim \div 2]

addBarrierGuard_OneCellMargin(s, x, y) == x > 0 /\ x < s.xdim - 1 /\ y > 0 /\ y < s.ydim - 1

\* the guard of addBarrier
addBarrierGuard(s, x, y) == x > 1 /\ x < s.xdim - 2 /\ y > 1 /\ y < s.ydim - 2

\* addBarrier(x, y)
addBarrier(s, x, y) ==
    IF addBarrierGuard(s, x, y)
    THEN [s EXCEPT !.barrier = Wr(@, Idx(x, y, s.xdim), 1)]
    ELSE s

\* removeBarrier(x, y): the flag is read and cleared at the linear index x + y*xdim
removeBarrier(s, x, y) ==
    LET i == Idx(x, y, s.xdim)
    IN  IF i \in DOMAIN s.barrier /\ s.barrier[i] # 0
        THEN [s EXCEPT !.barrier = Wr(@, i, 0)]
        ELSE s

clearBarriers_KeepsAll(s) == s

\* clearBarriers()
clearBarriers(s) == [s EXCEPT !.barrier = [i \in DOMAIN s.barrier |-> 0]]

\* barrierList of ./barrierdata: named shapes, each a flat list of coordinate pairs
barrierList ==
    << [name |-> "Short line", locations |-> <<2, 2, 3, 2>>],
       [name |-> "Diagonal", locations |-> <<2, 2, 3, 3, 4, 3>>],
       [name |-> "Off the grid", locations |-> <<0, 0, 1, 2, 3, 2, 5, 3, 3, 4, 12, 20, -1, 2>>] >>

\* placeBarrierShape: the pairs (locs[i], locs[i+1]) for i = 0, 2, 4, ...; a missing last
\* y is undefined, which fails the guard of addBarrier as -1 does
placeBarrierShapePairs(locs) ==
    [k \in 1..((Len(locs) + 1) \div 2) |->
        <<locs[2 * k - 1], IF 2 * k <= Len(locs) THEN locs[2 * k] ELSE -1>>]

\* placeBarrierShape(index)
placeBarrierShape(s, index) ==
    LET Body(t, c) == addBarrier(t, c[1], c[2])
    IN  \* barrierList[index - 1] of the 0-based array is element index of the sequence
        IF index - 1 >= 0 /\ index - 1 < Len(barrierList)
        THEN ForEach(Body, clearBarriers(s),
                     placeBarrierShapePairs(barrierList[index].locations), 1)
        ELSE s

\* the two calls of setEquil in the first loop of setBoundaries, at column x
setBoundariesRow(s, x, u0) ==
    LET Body(t, y) == setEquil(t, x, y, u0, Zero, One)
    IN  ForEach(Body, s, <<0, s.ydim - 1>>, 1)

setBoundariesCol_Inboard(s, y, u0) ==
    LET Body(t, x) == setEquil(t, x, y, u0, Zero, One)
    IN  ForEach(Body, s, <<1, s.xdim - 2>>, 1)

\* the two calls of setEquil in the second loop of setBoundaries, at row y
setBoundariesCol(s, y, u0) ==
    LET Body(t, x) == setEquil(t, x, y, u0, Zero, One)
    IN  ForEach(Body, s, <<0, s.xdim - 1>>, 1)

\* setBoundaries(u0)
setBoundaries(s, u0) ==
    LET Row(t, x) == setBoundariesRow(t, x, u0)
        Col(t, y) == setBoundariesCol(t, y, u0)
        t == ForEach(Row, s, Up(0, s.xdim - 1), 1)
    IN  ForEach(Col, t, Up(1, s.ydim - 2), 1)

\* the loop orders of the four streaming sweeps and of the bounce-back scan
OrderNNW_Ascending(s) == Order(Up(1, s.ydim - 2), Up(1, s.xdim - 2))

OrderNNW_FromEdge(s) == Order(Down(s.ydim - 2, 0), Up(1, s.xdim - 2))

OrderNNW(s) == Order(Down(s.ydim - 2, 1), Up(1, s.xdim - 2))

OrderENE_FromEdge(s) == Order(Down(s.ydim - 2, 0), Down(s.xdim - 2, 1))

OrderENE(s) == Order(Down(s.ydim - 2, 1), Down(s.xdim - 2, 1))

OrderSSE(s) == Order(Up(1, s.ydim - 2), Down(s.xdim - 2, 1))

OrderWSW(s) == Order(Up(1, s.ydim - 2), Up(1, s.xdim - 2))

OrderBounce(s) == Order(Up(1, s.ydim - 2), Up(1, s.xdim - 2))

\* the loop bodies of the four sweeps, at cell c = <<x, y>>
streamNNW(s, c) ==
    LET x == c[1]
        y == c[2]
        xd == s.xdim
    IN  [s EXCEPT !.nN = Wr(@, x + y * xd, Rd(s.nN, x + (y - 1) * xd)),
                  !.nNW = Wr(@, x + y * xd, Rd(s.nNW, x + 1 + (y - 1) * xd))]

streamENE_FromEast(s, c) ==
    LET x == c[1]
        y == c[2]
        xd == s.xdim
    IN  [s EXCEPT !.nE = Wr(@, x + y * xd, Rd(s.nE, x + 1 + y * xd)),
                  !.nNE = Wr(@, x + y * xd, Rd(s.nNE, x - 1 + (y - 1) * xd))]

streamENE(s, c) ==
    LET x == c[1]
        y == c[2]
        xd == s.xdim
    IN  [s EXCEPT !.nE = Wr(@, x + y * xd, Rd(s.nE, x - 1 + y * xd)),
                  !.nNE = Wr(@, x + y * xd, Rd(s.nNE, x - 1 + (y - 1) * xd))]

streamSSE_WrongColumn(s, c) ==
    LET x == c[1]
        y == c[2]
        xd == s.xdim
    IN  [s EXCEPT !.nS = Wr(@, x + y * xd, Rd(s.nS, x + (y + 1) * xd)),
                  !.nSE = Wr(@, x + y * xd, Rd(s.nSE, x + (y + 1) * xd))]

streamSSE(s, c) ==
    LET x == c[1]
        y == c[2]
        xd == s.xdim
    IN  [s EXCEPT !.nS = Wr(@, x + y * xd, Rd(s.nS, x + (y + 1) * xd)),
                  !.nSE = Wr(@, x + y * xd, Rd(s.nSE, x - 1 + (y + 1) * xd))]

streamWSW(s, c) ==
    LET x == c[1]
        y == c[2]
        xd == s.xdim
    IN  [s EXCEPT !.nW = Wr(@, x + y * xd, Rd(s.nW, x + 1 + y * xd)),
                  !.nSW = Wr(@, x + y * xd, Rd(s.nSW, x + 1 + (y + 1) * xd))]

bounceBack_NoReversal(s, c) ==
    LET x == c[1]
        y == c[2]
        xd == s.xdim
        i == x + y * xd
        E == Rd(s.nE, i)
        W == Rd(s.nW, i)
        N == Rd(s.nN, i)
        S == Rd(s.nS, i)
        NE == Rd(s.nNE, i)
        NW == Rd(s.nNW, i)
        SE == Rd(s.nSE, i)
        SW == Rd(s.nSW, i)
    IN  IF Rd(s.barrier, i) = 0 THEN s
        ELSE [s EXCEPT
                !.nE = Wr(@, x + 1 + y * xd, E),
                !.nW = Wr(@, x - 1 + y * xd, W),
                !.nN = Wr(@, x + (y + 1) * xd, S),
                !.nS = Wr(@, x + (y - 1) * xd, N),
                !.nNE = Wr(@, x + 1 + (y + 1) * xd, SW),
                !.nNW = Wr(@, x - 1 + (y + 1) * xd, SE),
                !.nSE = Wr(@, x + 1 + (y - 1) * xd, NW),
                !.nSW = Wr(@, x - 1 + (y - 1) * xd, NE),
                !.barrierCount = @ + 1,
                !.barrierxSum = @ + x,
                !.barrierySum = @ + y,
                !.barrierFx = RAdd(@, RSub(RAdd(RAdd(E, NE), SE), RAdd(RAdd(W, NW), SW))),
                !.barrierFy = RAdd(@, RSub(RAdd(RAdd(N, NE), NW), RAdd(RAdd(S, SE), SW)))]

\* the body of the bounce-back scan at cell c = <<x, y>>
bounceBack(s, c) ==
    LET x == c[1]
        y == c[2]
        xd == s.xdim
        i == x + y * xd
        E == Rd(s.nE, i)
        W == Rd(s.nW, i)
        N == Rd(s.nN, i)
        S == Rd(s.nS, i)
        NE == Rd(s.nNE, i)
        NW == Rd(s.nNW, i)
        SE == Rd(s.nSE, i)
        SW == Rd(s.nSW, i)
    IN  IF Rd(s.barrier, i) = 0 THEN s
        ELSE [s EXCEPT
                !.nE = Wr(@, x + 1 + y * xd, W),
                !.nW = Wr(@, x - 1 + y * xd, E),
                !.nN = Wr(@, x + (y + 1) * xd, S),
                !.nS = Wr(@, x + (y - 1) * xd, N),
                !.nNE = Wr(@, x + 1 + (y + 1) * xd, SW),
                !.nNW = Wr(@, x - 1 + (y + 1) * xd, SE),
                !.nSE = Wr(@, x + 1 + (y - 1) * xd, NW),
                !.nSW = Wr(@, x - 1 + (y - 1) * xd, NE),
                !.barrierCount = @ + 1,
                !.barrierxSum = @ + x,
                !.barrierySum = @ + y,
                !.barrierFx = RAdd(@, RSub(RAdd(RAdd(E, NE), SE), RAdd(RAdd(W, NW), SW))),
                !.barrierFy = RAdd(@, RSub(RAdd(RAdd(N, NE), NW), RAdd(RAdd(S, SE), SW)))]

resetAccumulators_FromSensor(s) ==
    [s EXCEPT !.barrierCount = s.sensorX, !.barrierxSum = 0, !.barrierySum = 0,
              !.barrierFx = Zero, !.barrierFy = Zero]

resetAccumulators_KeepCount(s) ==
    [s EXCEPT !.barrierxSum = 0, !.barrierySum = 0, !.barrierFx = Zero, !.barrierFy = Zero]

\* the reset of the accumulators at the start of stream()
resetAccumulators(s) ==
    [s EXCEPT !.barrierCount = 0, !.barrierxSum = 0, !.barrierySum = 0,
              !.barrierFx = Zero, !.barrierFy = Zero]

\* the four sweeps of stream(), in the order of the source
streamSweeps(s) ==
    LET s1 == ForEach(streamNNW, s, OrderNNW(s), 1)
        s2 == ForEach(streamENE, s1, OrderENE(s), 1)
        s3 == ForEach(streamSSE, s2, OrderSSE(s), 1)
    IN  ForEach(streamWSW, s3, OrderWSW(s), 1)

\* stream()
stream(s) == ForEach(bounceBack, streamSweeps(resetAccumulators(s)), OrderBounce(s), 1)

\* the guard of pushFluid
margin == 3

pushFluidGuard_MarginTwo(s, pushX, pushY) ==
    /\ pushX > margin - 1 /\ pushX < s.xdim - margin
    /\ pushY > margin - 1 /\ pushY < s.ydim - margin

pushFluidGuard(s, pushX, pushY) ==
    /\ pushX > margin /\ pushX < s.xdim - 1 - margin
    /\ pushY > margin /\ pushY < s.ydim - 1 - margin

pushFluidOffsets_Square == [k \in 1..25 |-> <<((k - 1) \div 5) - 2, ((k - 1) % 5) - 2>>]

\* the offsets <<dx, dy>> of the cells pushFluid overwrites, in the order of its loops
pushFluidOffsets ==
    <<  <<-1, 2>>, <<-1, -2>>, <<0, 2>>, <<0, -2>>, <<1, 2>>, <<1, -2>> >>
    \o [k \in 1..15 |-> <<((k - 1) \div 3) - 2, ((k - 1) % 3) - 1>>]

pushFluidCells(pushX, pushY) ==
    [k \in 1..Len(pushFluidOffsets) |->
        <<pushX + pushFluidOffsets[k][1], pushY + pushFluidOffsets[k][2]>>]

\* pushFluid(pushX, pushY, pushUX, pushUY)
pushFluid(s, pushX, pushY, pushUX, pushUY) ==
    LET Body(t, c) == setEquil(t, c[1], c[2], pushUX, pushUY, Undefined)
    IN  IF pushFluidGuard(s, pushX, pushY)
        THEN ForEach(Body, s, pushFluidCells(pushX, pushY), 1)
        ELSE s

checkStabilityMid_RoundUp(s) == ((s.ydim + 1) \div 2) * s.xdim

\* checkStability(): the row scanned starts at (ydim >> 1) * xdim
checkStabilityMid(s) == (s.ydim \div 2) * s.xdim

checkStability(s) ==
    \A x \in 0..(s.xdim - 1) : ~RLe(Rd(s.rho, x + checkStabilityMid(s)), Zero)

\* collide: rho, ux and uy of cell i, recomputed from its nine populations
collideMoments(s, i) ==
    LET thisrho == RSum(<<s.n0[i], s.nN[i], s.nS[i], s.nE[i], s.nW[i],
                          s.nNW[i], s.nNE[i], s.nSW[i], s.nSE[i]>>)
        thisux == RDiv(RSub(RSub(RSub(RAdd(RAdd(s.nE[i], s.nNE[i]), s.nSE[i]),
                                      s.nW[i]), s.nNW[i]), s.nSW[i]), thisrho)
        thisuy == RDiv(RSub(RSub(RSub(RAdd(RAdd(s.nN[i], s.nNE[i]), s.nNW[i]),
                                      s.nS[i]), s.nSE[i]), s.nSW[i]), thisrho)
    IN  [rho |-> thisrho, ux |-> thisux, uy |-> thisuy]

collideRelax_Overshoot(n, eq, omega) == RAdd(n, RMul(omega, eq))

\* collide: n += omega * (equilibrium - n)
collideRelax(n, eq, omega) == RAdd(n, RMul(omega, RSub(eq, n)))

\* the writes of collide at index i: the moments m and the relaxation towards e
collideWrite(s, i, m, e, omega) ==
    [s EXCEPT !.rho[i] = m.rho, !.ux[i] = m.ux, !.uy[i] = m.uy,
              !.n0[i] = collideRelax(@, e.n0, omega),
              !.nE[i] = collideRelax(@, e.nE, omega),
              !.nW[i] = collideRelax(@, e.nW, omega),
              !.nN[i] = collideRelax(@, e.nN, omega),
              !.nS[i] = collideRelax(@, e.nS, omega),
              !.nNE[i] = collideRelax(@, e.nNE, omega),
              !.nSE[i] = collideRelax(@, e.nSE, omega),
              !.nNW[i] = collideRelax(@, e.nNW, omega),
              !.nSW[i] = collideRelax(@, e.nSW, omega)]

collideEquil_AtRest(m) == Equil(m.rho, Zero, Zero)

collideEquil(m) == Equil(m.rho, m.ux, m.uy)

\* the interior pass of collide(omega) at cell c = <<x, y>>
collideCell(s, c, omega) ==
    collideWrite(s, Idx(c[1], c[2], s.xdim),
                 collideMoments(s, Idx(c[1], c[2], s.xdim)),
                 collideEquil(collideMoments(s, Idx(c[1], c[2], s.xdim))), omega)

\* the rows of the outflow pass of collide: for (y = 1; y < ydim - 2; y++)
collideOutflowRows(s) == Up(1, s.ydim - 3)

\* the outflow pass of collide at row y
collideOutflow(s, y) ==
    LET i == s.xdim - 1 + y * s.xdim
        im1 == i - 1
    IN  [s EXCEPT !.nW = Wr(@, i, Rd(s.nW, im1)),
                  !.nNW = Wr(@, i, Rd(s.nNW, im1)),
                  !.nSW = Wr(@, i, Rd(s.nSW, im1))]

\* collide(omega)
collide(s, omega) ==
    LET Body(t, c) == collideCell(t, c, omega)
        t == ForEach(Body, s, Order(Up(1, s.ydim - 2), Up(1, s.xdim - 2)), 1)
    IN  ForEach(collideOutflow, t, collideOutflowRows(s), 1)

computeCurlCell_Forward(s, c) ==
    LET x == c[1]
        y == c[2]
        xd == s.xdim
    IN  [s EXCEPT !.curl = Wr(@, x + y * xd,
            RSub(RSub(Rd(s.uy, x + 1 + y * xd), Rd(s.uy, x + y * xd)),
                 RSub(Rd(s.ux, x + (y + 1) * xd), Rd(s.ux, x + y * xd))))]

\* computeCurl() at cell c = <<x, y>>
computeCurlCell(s, c) ==
    LET x == c[1]
        y == c[2]
        xd == s.xdim
    IN  [s EXCEPT !.curl = Wr(@, x + y * xd,
            RSub(RSub(Rd(s.uy, x + 1 + y * xd), Rd(s.uy, x - 1 + y * xd)),
                 RSub(Rd(s.ux, x + (y + 1) * xd), Rd(s.ux, x + (y - 1) * xd))))]

\* computeCurl()
computeCurl(s) ==
    ForEach(computeCurlCell, s, Order(Up(1, s.ydim - 2), Up(1, s.xdim - 2)), 1)

-----------------------------------------------------------------------------
(* Salmon *)

\* Math.round of a finite number: the nearest integer, halves rounded up
Round(a) == (2 * a[1] + a[2]) \div (2 * a[2])

\* the index round(x) + round(y) * xdim; a coordinate that is not finite gives an index
\* that is in no array (-1 here)
RoundIdx(x, y, xd) == IF IsFinite(x) /\ IsFinite(y) THEN Round(x) + Round(y) * xd ELSE -1

\* Math.min and Math.max: NaN when either argument is NaN
RMin(a, b) == IF IsNaN(a) \/ IsNaN(b) THEN NaN ELSE IF RLe(a, b) THEN a ELSE b

RMax(a, b) == IF IsNaN(a) \/ IsNaN(b) THEN NaN ELSE IF RLe(a, b) THEN b ELSE a

\* new Salmon(x, y, length, maxSpeed, maxStamina)
NewSalmon(x, y, length, maxSpeed, maxStamina) ==
    [x |-> x, y |-> y, length |-> length, maxSpeed |-> maxSpeed,
     maxStamina |-> maxStamina, stamina |-> maxStamina,
     staminaUsage |-> Q(1, 20), staminaRecovery |-> Q(1, 100),
     lowSpeedThreshold |-> Q(1, 20)]

\* 1/sqrt(2), the component of a diagonal unit vector, to 4 digits
InvSqrt2 == Q(7071, 10000)

\* update: the flow velocity at the cell nearest to the salmon
updateFlow(sal, s) ==
    [ux |-> Rd(s.ux, RoundIdx(sal.x, sal.y, s.xdim)),
     uy |-> Rd(s.uy, RoundIdx(sal.x, sal.y, s.xdim))]

\* update: flowSpeed < lowSpeedThreshold, compared on the squares
updateFlowSlow(flow, threshold) ==
    RLt(RAdd(RMul(flow.ux, flow.ux), RMul(flow.uy, flow.uy)), RMul(threshold, threshold))

\* update: the direction the pressed keys ask for, before normalisation
updateDesired(input) ==
    [ux |-> (IF input.right THEN 1 ELSE 0) - (IF input.left THEN 1 ELSE 0),
     uy |-> (IF input.down THEN 1 ELSE 0) - (IF input.up THEN 1 ELSE 0)]

\* update: whether the salmon swims: it has stamina, and the keys give a direction
updateSwims(sal, d) == ~RLe(sal.stamina, Zero) /\ (d.ux # 0 \/ d.uy # 0)

\* update: a component of the normalised direction, scaled by maxSpeed
updateScaled(sal, d, k) ==
    IF d.ux # 0 /\ d.uy # 0 THEN RMul(RMul(Num(k), InvSqrt2), sal.maxSpeed)
    ELSE RMul(Num(k), sal.maxSpeed)

\* update: salmonUx and salmonUy
updateSwim(sal, d) ==
    IF updateSwims(sal, d)
    THEN [ux |-> updateScaled(sal, d, d.ux), uy |-> updateScaled(sal, d, d.uy)]
    ELSE [ux |-> Zero, uy |-> Zero]

\* update: the stamina, used up by swimming and recovered in a slow flow
updateStamina(sal, d, slow) ==
    IF updateSwims(sal, d)
    THEN RMax(Zero, RSub(sal.stamina, sal.staminaUsage))
    ELSE IF slow
         THEN (IF RGt(RAdd(sal.stamina, sal.staminaRecovery), sal.maxStamina)
               THEN sal.maxStamina ELSE RAdd(sal.stamina, sal.staminaRecovery))
         ELSE sal.stamina

\* update: the position clamped to the grid
updateProposed(sal, s, flow, swim) ==
    [x |-> RMax(Zero, RMin(Num(s.xdim - 1), RAdd(RAdd(sal.x, flow.ux), swim.ux))),
     y |-> RMax(Zero, RMin(Num(s.ydim - 1), RAdd(RAdd(sal.y, flow.uy), swim.uy)))]

updateMove_Always(sal, s, p) == [sal EXCEPT !.x = p.x, !.y = p.y]

\* update: the move is dropped when the cell nearest to the new position is a barrier
updateMove(sal, s, p) ==
    IF /\ RoundIdx(p.x, p.y, s.xdim) \in DOMAIN s.barrier
       /\ s.barrier[RoundIdx(p.x, p.y, s.xdim)] = 1
    THEN sal
    ELSE [sal EXCEPT !.x = p.x, !.y = p.y]

\* Salmon.update(sim, input)
update(sal, s, input) ==
    [updateMove(sal, s, updateProposed(sal, s, updateFlow(sal, s),
                                       updateSwim(sal, updateDesired(input))))
        EXCEPT !.stamina = updateStamina(sal, updateDesired(input),
                               updateFlowSlow(updateFlow(sal, s), sal.lowSpeedThreshold))]

-----------------------------------------------------------------------------
(* UIController: the driver of the solver *)

\* Math.ceil(Math.sqrt(n))
CeilSqrt(n) == CHOOSE k \in 0..n : k * k >= n /\ (k = 0 \/ (k - 1) * (k - 1) < n)

\* initTracers: one pass of the loop; v holds the object, nextX and nextY
initTracersStep(v, k, dx, dy) ==
    [s |-> [v.s EXCEPT !.tracerX = Wr(@, k, v.nextX), !.tracerY = Wr(@, k, v.nextY)],
     nextX |-> IF RGt(RAdd(v.nextX, dx), Num(v.s.xdim)) THEN RDiv(dx, Num(2))
               ELSE RAdd(v.nextX, dx),
     nextY |-> IF RGt(RAdd(v.nextX, dx), Num(v.s.xdim)) THEN RAdd(v.nextY, dy)
               ELSE v.nextY]

initTracersLoop(s, dx, dy) ==
    LET Body(v, k) == initTracersStep(v, k, dx, dy)
    IN  ForEach(Body, [s |-> s, nextX |-> RDiv(dx, Num(2)), nextY |-> RDiv(dy, Num(2))],
                Up(0, s.nTracers - 1), 1).s

\* initTracers(enableTracers)
initTracers(s, enableTracers) ==
    IF ~enableTracers THEN s
    ELSE initTracersLoop(s, Q(s.xdim, CeilSqrt(s.nTracers)), Q(s.ydim, CeilSqrt(s.nTracers)))

\* moveTracers: the position of tracer k after the two additions; the velocity is read at
\* the index round(x) + round(y) * xdim, and is undefined when that is outside the arrays
moveTracersAdvance(s, k) ==
    [x |-> RAdd(s.tracerX[k],
                Rd(s.ux, RoundIdx(s.tracerX[k], s.tracerY[k], s.xdim))),
     y |-> RAdd(s.tracerY[k],
                Rd(s.uy, RoundIdx(s.tracerX[k], s.tracerY[k], s.xdim)))]

\* moveTracers: the wrap test
moveTracersWraps(s, p) == RGt(p.x, Num(s.xdim - 1))

\* moveTracers: one pass of the loop; r is the value Math.random() returns if it is called
moveTracersStep(s, k, p, r) ==
    IF moveTracersWraps(s, p)
    THEN [s EXCEPT !.tracerX = Wr(@, k, Zero), !.tracerY = Wr(@, k, RMul(r, Num(s.ydim)))]
    ELSE [s EXCEPT !.tracerX = Wr(@, k, p.x), !.tracerY = Wr(@, k, p.y)]

\* moveTracers(enabled); random[k] is what Math.random() returns for tracer k
moveTracers(s, enabled, random) ==
    LET Body(v, k) == moveTracersStep(v, k, moveTracersAdvance(v, k), random[k])
    IN  IF ~enabled THEN s ELSE ForEach(Body, s, Up(0, s.nTracers - 1), 1)

\* the values of Math.random() when no tracer is moved
NoRandom == << >>

\* the page as loaded, the fields of a new UIController, and the new Salmon of the main
\* script; pending counts the animation-frame and timer callbacks scheduled and not yet run
NewUI(s, steps) ==
    [running |-> FALSE, startButton |-> "Run", stepCount |-> 0, timeStep |-> 0,
     collectingData |-> FALSE, showingPeriod |-> FALSE,
     lastBarrierFy |-> One, lastFyOscTime |-> 0,
     mouseIsDown |-> FALSE, oldMouseX |-> -1, oldMouseY |-> -1,
     upPressed |-> FALSE, downPressed |-> FALSE, leftPressed |-> FALSE,
     rightPressed |-> FALSE,
     stepsSlider |-> steps, speedSlider |-> Q(1, 10), viscSlider |-> Q(1, 50),
     rafCheck |-> TRUE, tracerCheck |-> FALSE,
     pending |-> 0,
     salmon |-> NewSalmon(Q(s.xdim, 2), Q(s.ydim, 2), 5, Q(1, 2), Num(10))]

\* the solver, the controller and the record of calls, as one value w
World == [sim |-> sim, ui |-> ui, calls |-> calls]

\* the number of the next batch of solver calls
NextFrame(w) ==
    LET fs == {w.calls[i][1] : i \in DOMAIN w.calls}
    IN  IF fs = {} THEN 1 ELSE 1 + CHOOSE m \in fs : \A k \in fs : k <= m

Logged(w, f, op) == [w EXCEPT !.calls = Append(@, <<f, op>>)]

\* omega = 1 / (3 * viscosity + 0.5)
omegaOf(viscosity) == RDiv(One, RAdd(RMul(Num(3), viscosity), Q(1, 2)))

frameBoundaries_Skipped(w, f, u0) == w

\* this.sim.setBoundaries(u0) at the start of simulate and of collideStreamAndPaint
frameBoundaries(w, f, u0) ==
    Logged([w EXCEPT !.sim = setBoundaries(@, u0)], f, "setBoundaries")

\* simulate: the mouse is not down, so nothing is pushed and the old position is reset
simulateMouse(w) == [w EXCEPT !.ui.oldMouseX = -1, !.ui.oldMouseY = -1]

\* simulate: the end of one pass of the loop (the period view is off)
simulateStepEnd(w) ==
    [w EXCEPT !.ui.timeStep = @ + 1, !.ui.lastBarrierFy = w.sim.barrierFy]

\* simulate: one pass of the loop
simulateStep(w, f, omega, doTracers) ==
    simulateStepEnd(
        [w EXCEPT !.sim = moveTracers(stream(collide(@, omega)), doTracers, NoRandom),
                  !.calls = @ \o << <<f, "collide">>, <<f, "stream">>, <<f, "moveTracers">> >>])

simulateSteps(w, f, omega, stepsPerFrame, doTracers) ==
    LET Body(v, step) == simulateStep(v, f, omega, doTracers)
    IN  ForEach(Body, w, Up(0, stepsPerFrame - 1), 1)

\* simulate: this.salmon.update(this.sim, the arrow keys)
simulateSalmon(w) ==
    [w EXCEPT !.ui.salmon =
        update(@, w.sim, [up |-> w.ui.upPressed, down |-> w.ui.downPressed,
                          left |-> w.ui.leftPressed, right |-> w.ui.rightPressed])]

\* simulate: the speed readout
simulateReadout(w, stepsPerFrame) ==
    IF w.ui.running THEN [w EXCEPT !.ui.stepCount = @ + stepsPerFrame] ELSE w

\* simulate: the next callback, requested when the simulation is running
simulateSchedule(w) ==
    IF w.ui.running THEN [w EXCEPT !.ui.pending = @ + 1] ELSE w

resetTimer(w) == [w EXCEPT !.ui.stepCount = 0]

initFluidFromSlider(w, f) ==
    Logged([w EXCEPT !.sim = initFluid(@, w.ui.speedSlider)], f, "initFluid")

RECURSIVE simulate(_)

\* startStop: the toggle of running and of the button label. The record of calls notes
\* it, outside the numbered frames, as "pause" or "run"
startStopToggle(w) ==
    Logged([w EXCEPT !.ui.running = ~@,
                     !.ui.startButton = IF w.ui.running THEN "Run" ELSE "Pause"],
           0, IF w.ui.running THEN "pause" ELSE "run")

startStopRun(w) == IF w.ui.running THEN simulate(resetTimer(w)) ELSE w

\* startStop()
startStop(w) == startStopRun(startStopToggle(w))

\* simulate: the stability check, and the pause and reset that follow a failed one
simulateUnstable(w, f) ==
    IF checkStability(w.sim)
    THEN Logged(w, f, "checkStability")
    ELSE initFluidFromSlider(startStop(Logged(w, f, "checkStability")), f)

simulateFrame(w, f) ==
    simulateSchedule(
        simulateUnstable(
            simulateReadout(
                simulateSalmon(
                    simulateSteps(simulateMouse(frameBoundaries(w, f, w.ui.speedSlider)),
                                  f, omegaOf(w.ui.viscSlider), w.ui.stepsSlider,
                                  w.ui.tracerCheck)),
                w.ui.stepsSlider),
            f))

\* simulate()
simulate(w) == simulateFrame(w, NextFrame(w))

collideStreamAndPaintStep(w, f, omega) ==
    [w EXCEPT !.sim = stream(collide(@, omega)),
              !.calls = @ \o << <<f, "collide">>, <<f, "stream">> >>]

collideStreamAndPaintTracers(w, f) ==
    Logged([w EXCEPT !.sim = moveTracers(@, w.ui.tracerCheck, NoRandom)], f, "moveTracers")

collideStreamAndPaintFrame(w, f) ==
    LET Body(v, step) == collideStreamAndPaintStep(v, f, omegaOf(w.ui.viscSlider))
    IN  collideStreamAndPaintTracers(
            ForEach(Body, frameBoundaries(w, f, w.ui.speedSlider),
                    Up(0, w.ui.stepsSlider - 1), 1),
            f)

\* collideStreamAndPaint()
collideStreamAndPaint(w) == collideStreamAndPaintFrame(w, NextFrame(w))

-----------------------------------------------------------------------------
(* Bounds of the model *)

\* grid of the streaming and barrier specifications
GridXdim == 7

GridYdim == 6

\* grid of the barrier editing specification
BarrierXdim == 6

BarrierYdim == 5

\* how far beyond the grid the coordinates passed to the solver range
ArgSlack == 3

\* grid of the boundary, forcing and stability specification
FluidXdim == 10

FluidYdim == 9

\* number of calls in a behaviour of that specification
FluidOps == 1

\* grid of the driver specification
DriverXdim == 5

DriverYdim == 5

\* largest number of steps per frame set on the steps slider
MaxSteps == 2

\* number of events (clicks, slider inputs, callbacks) in a behaviour of the driver
DriverEvents == 4

\* largest number of barrier cells in an initial layout
\* grid and number of calls of the equilibrium specification
EquilXdim == 4

EquilYdim == 3

EquilOps == 1

\* grid and number of calls of the collision specification
StepXdim == 6

StepYdim == 5

StepOps == 1

\* grid and number of calls of the recovery specification
RecoverXdim == 7

RecoverYdim == 7

RecoverOps == 2

\* grid of the batch specification, and the number of calls in one behaviour
BatchXdim == 9

BatchYdim == 9

BatchOps == 3

\* grid of the salmon specification, and the number of calls in one behaviour
SalmonXdim == 6

SalmonYdim == 5

SalmonOps == 3

\* grid and number of calls of the two-run specification
SensorXdim == 9

SensorYdim == 9

SensorOps == 2

\* grid and number of calls of the tracer specification
TracerXdim == 6

TracerYdim == 5

TracerOps == 4

\* events of the driver on a diverging fluid
UnstableEvents == 5

MaxBarriers == 2

\* largest number of calls in one behaviour
MaxOps == 3

-----------------------------------------------------------------------------
(* Population states the solver is started from *)

\* slot numbers: 0 n0, 1 nN, 2 nS, 3 nE, 4 nW, 5 nNE, 6 nSE, 7 nNW, 8 nSW
MirrorRow(d) == <<0, 2, 1, 3, 4, 6, 5, 8, 7>>[d + 1]

MirrorCol(d) == <<0, 1, 2, 4, 3, 7, 8, 5, 6>>[d + 1]

\* a value that differs for every slot and cell
Tag(d, x, y) == 1 + d + 9 * (x + 16 * y)

\* "tag": all values distinct; "row": mirror-symmetric about row p.ay; "col": about
\* column p.ax; "both": about both
PatVal(p, d, x, y) ==
    LET mx == p.kind \in {"col", "both"} /\ x > p.ax
        my == p.kind \in {"row", "both"} /\ y > p.ay
        d1 == IF mx THEN MirrorCol(d) ELSE d
        d2 == IF my THEN MirrorRow(d1) ELSE d1
    IN  Tag(d2,
            IF p.kind \in {"col", "both"} THEN Abs(x - p.ax) ELSE x,
            IF p.kind \in {"row", "both"} THEN Abs(y - p.ay) ELSE y)

PatArray(p, d, xd, yd) ==
    [i \in 0..(Size(xd, yd) - 1) |-> Num(PatVal(p, d, i % xd, i \div xd))]

\* the object with its populations set from pattern p, and rho, ux, uy of every cell
\* as collide computes them from the populations
PatternSim(p, xd, yd) ==
    LET s == [NewSim(xd, yd) EXCEPT
                !.n0 = PatArray(p, 0, xd, yd),
                !.nN = PatArray(p, 1, xd, yd), !.nS = PatArray(p, 2, xd, yd),
                !.nE = PatArray(p, 3, xd, yd), !.nW = PatArray(p, 4, xd, yd),
                !.nNE = PatArray(p, 5, xd, yd), !.nSE = PatArray(p, 6, xd, yd),
                !.nNW = PatArray(p, 7, xd, yd), !.nSW = PatArray(p, 8, xd, yd)]
    IN  [s EXCEPT !.rho = [i \in DOMAIN s.rho |-> collideMoments(s, i).rho],
                  !.ux = [i \in DOMAIN s.ux |-> collideMoments(s, i).ux],
                  !.uy = [i \in DOMAIN s.uy |-> collideMoments(s, i).uy]]

Patterns(xd, yd) ==
    {[kind |-> "tag", ax |-> 0, ay |-> 0]}
    \cup {[kind |-> "row", ax |-> 0, ay |-> r] : r \in 2..(yd - 3)}
    \cup {[kind |-> "col", ax |-> c, ay |-> 0] : c \in 2..(xd - 3)}
    \cup {[kind |-> "both", ax |-> c, ay |-> r] : c \in 2..(xd - 3), r \in 2..(yd - 3)}

\* the cells addBarrier accepts
SafeCells(xd, yd) == {c \in (0..(xd - 1)) \X (0..(yd - 1)) : addBarrierGuard([xdim |-> xd, ydim |-> yd], c[1], c[2])}

\* the object after addBarrier on every cell of the set cs
RECURSIVE WithBarriers(_, _)
WithBarriers(s, cs) ==
    IF cs = {} THEN s
    ELSE LET c == CHOOSE c \in cs : TRUE
         IN  WithBarriers(addBarrier(s, c[1], c[2]), cs \ {c})

Layouts(xd, yd) == {cs \in SUBSET SafeCells(xd, yd) : Cardinality(cs) <= MaxBarriers}

Call(op, args, ret) == [op |-> op, args |-> args, ret |-> ret]

-----------------------------------------------------------------------------
(* The solver's operations as actions *)

Unlimited == 0 - 1

\* the solver used on its own, without a driver
NoTwin == twin = << >>

NoDriver == ui = << >> /\ calls = << >> /\ NoTwin

\* a call that replaces the object by s2
Do(op, args, ret, s2) ==
    /\ fuel # 0
    /\ fuel' = IF fuel = Unlimited THEN fuel ELSE fuel - 1
    /\ sim' = s2
    /\ old' = sim
    /\ last' = Call(op, args, ret)
    /\ UNCHANGED <<ui, calls, twin>>

Stream == Do("stream", << >>, TRUE, stream(sim))

ClearBarriers == Do("clearBarriers", << >>, TRUE, clearBarriers(sim))

AddBarrier(x, y) == Do("addBarrier", <<x, y>>, TRUE, addBarrier(sim, x, y))

RemoveBarrier(x, y) == Do("removeBarrier", <<x, y>>, TRUE, removeBarrier(sim, x, y))

PlaceBarrierShape(index) ==
    Do("placeBarrierShape", <<index>>, TRUE, placeBarrierShape(sim, index))

SetBoundaries(u0) == Do("setBoundaries", <<u0>>, TRUE, setBoundaries(sim, u0))

PushFluid(x, y, v) == Do("pushFluid", <<x, y, v[1], v[2]>>, TRUE, pushFluid(sim, x, y, v[1], v[2]))

CheckStability == Do("checkStability", << >>, checkStability(sim), sim)

-----------------------------------------------------------------------------
(* Streaming: stream() from every population pattern and barrier layout *)

InitStream ==
    /\ \E p \in Patterns(GridXdim, GridYdim), cs \in Layouts(GridXdim, GridYdim) :
          sim = WithBarriers(PatternSim(p, GridXdim, GridYdim), cs)
    /\ old = sim
    /\ last = Call("new", << >>, TRUE)
    /\ fuel = MaxOps
    /\ NoDriver

NextStream == Stream \/ ClearBarriers

SpecStream == InitStream /\ [][NextStream]_vars

-----------------------------------------------------------------------------
(* Barrier editing: any sequence of edits, with any integer arguments *)

\* the inflow speeds used: 0, 0.1 and 0.12 (the speed slider runs from 0 to 0.12)
Speeds == {Zero, Q(1, 10), Q(3, 25)}

\* coordinates passed to the solver: the grid and ArgSlack cells beyond it on each side
ArgsX(s) == (-ArgSlack)..(s.xdim - 1 + ArgSlack)

ArgsY(s) == (-ArgSlack)..(s.ydim - 1 + ArgSlack)

InitBarrier ==
    /\ sim = initFluid(NewSim(BarrierXdim, BarrierYdim), Q(1, 10))
    /\ old = sim
    /\ last = Call("new", << >>, TRUE)
    /\ fuel = Unlimited
    /\ NoDriver

NextBarrier ==
    \/ \E x \in ArgsX(sim), y \in ArgsY(sim) : AddBarrier(x, y)
    \/ \E x \in ArgsX(sim), y \in ArgsY(sim) : RemoveBarrier(x, y)
    \/ ClearBarriers
    \/ \E index \in 0..(Len(barrierList) + 1) : PlaceBarrierShape(index)

SpecBarrier == InitBarrier /\ [][NextBarrier]_vars

-----------------------------------------------------------------------------
(* Boundaries, forcing and stability: setBoundaries, pushFluid and checkStability *)

\* densities written into a few cells of the start state: <<x, y, rho>>
Plants(xd, yd) ==
    LET mid == yd \div 2
    IN  { {},
          {<<xd - 1, mid, Zero>>},
          {<<3, mid, Num(-1)>>},
          {<<3, mid - 1, Num(-1)>>, <<3, mid + 1, Zero>>},
          {<<2, mid, NaN>>} }

RECURSIVE WithPlants(_, _)
WithPlants(s, ps) ==
    IF ps = {} THEN s
    ELSE LET p == CHOOSE p \in ps : TRUE
         IN  WithPlants([s EXCEPT !.rho = Wr(@, Idx(p[1], p[2], s.xdim), p[3])], ps \ {p})

\* the coordinates and the velocity passed to pushFluid
PushArgs(n) == (-1)..n

PushVelocities == {<<Q(1, 10), Q(-1, 20)>>}

InitFluid ==
    /\ \/ \E u0 \in Speeds, ps \in Plants(FluidXdim, FluidYdim) :
             sim = WithPlants(initFluid(NewSim(FluidXdim, FluidYdim), u0), ps)
       \/ sim = PatternSim([kind |-> "tag", ax |-> 0, ay |-> 0], FluidXdim, FluidYdim)
    /\ old = sim
    /\ last = Call("new", << >>, TRUE)
    /\ fuel = FluidOps
    /\ NoDriver

NextFluid ==
    \/ \E u0 \in Speeds : SetBoundaries(u0)
    \/ \E x \in PushArgs(sim.xdim), y \in PushArgs(sim.ydim), v \in PushVelocities :
          PushFluid(x, y, v)
    \/ CheckStability

SpecFluid == InitFluid /\ [][NextFluid]_vars

-----------------------------------------------------------------------------
(* Equilibrium: setEquil at every cell, for a range of velocities and densities *)

SetEquil(x, y, newux, newuy, newrho) ==
    Do("setEquil", <<x, y, newux, newuy, newrho>>, TRUE,
       setEquil(sim, x, y, newux, newuy, newrho))

\* velocity components and densities passed to setEquil
EquilVelocities == {Q(-1, 2), Zero, Q(1, 10), Q(2, 3)}

EquilDensities == {Q(1, 3), One, Num(5)}

\* the start states: the uniform flow of initFluid(0.1), and every population distinct
InitEquil ==
    /\ \/ sim = initFluid(NewSim(EquilXdim, EquilYdim), Q(1, 10))
       \/ sim = PatternSim([kind |-> "tag", ax |-> 0, ay |-> 0], EquilXdim, EquilYdim)
    /\ old = sim
    /\ last = Call("new", << >>, TRUE)
    /\ fuel = EquilOps
    /\ NoDriver

NextEquil ==
    \E x \in 0..(sim.xdim - 1), y \in 0..(sim.ydim - 1),
       newux \in EquilVelocities, newuy \in EquilVelocities, newrho \in EquilDensities :
        SetEquil(x, y, newux, newuy, newrho)

SpecEquil == InitEquil /\ [][NextEquil]_vars

-----------------------------------------------------------------------------
(* Collision: collide, collide then stream, a whole step, and computeCurl, from *)
(* the flow of initFluid(u0) with the boundaries set for the same or another    *)
(* speed, and from populations that are not in equilibrium                      *)

\* collide(omega); stream(): one turn of the loop of simulate and collideStreamAndPaint
collideStream(s, omega) == stream(collide(s, omega))

\* setBoundaries(u0); collide(omega); stream(): a frame of one step
oneStep(s, u0, omega) == collideStream(setBoundaries(s, u0), omega)

Collide(omega) == Do("collide", <<omega>>, TRUE, collide(sim, omega))

CollideStream(omega) == Do("collideStream", <<omega>>, TRUE, collideStream(sim, omega))

OneStep(u0, omega) == Do("oneStep", <<u0, omega>>, TRUE, oneStep(sim, u0, omega))

ComputeCurl == Do("computeCurl", << >>, TRUE, computeCurl(sim))

\* omega = 1 / (3 * viscosity + 0.5) for viscosity 1/2, 1/6, 1/10 and 1/50
Omegas == {Q(1, 2), One, Q(5, 4), Q(25, 14)}

\* populations out of equilibrium: small whole numbers that differ from cell to cell
\* and from direction to direction, with n0 making the cell's total 48 or 72
OffEquilDir(k, d, x, y) == 1 + ((k * x + 2 * y + d * (x + y + 1) + x * y) % 5)

OffEquilTotal(x, y) == IF (x + y) % 2 = 0 THEN 48 ELSE 72

OffEquilVal(k, d, x, y) ==
    IF d # 0 THEN OffEquilDir(k, d, x, y)
    ELSE OffEquilTotal(x, y)
            - (OffEquilDir(k, 1, x, y) + OffEquilDir(k, 2, x, y) + OffEquilDir(k, 3, x, y)
               + OffEquilDir(k, 4, x, y) + OffEquilDir(k, 5, x, y) + OffEquilDir(k, 6, x, y)
               + OffEquilDir(k, 7, x, y) + OffEquilDir(k, 8, x, y))

OffEquilArray(k, d, xd, yd) ==
    [i \in 0..(Size(xd, yd) - 1) |-> Num(OffEquilVal(k, d, i % xd, i \div xd))]

\* the object with these populations, and rho, ux, uy of every cell as collide computes
\* them from the populations
OffEquilSim(k, xd, yd) ==
    LET s == [NewSim(xd, yd) EXCEPT
                !.n0 = OffEquilArray(k, 0, xd, yd),
                !.nN = OffEquilArray(k, 1, xd, yd), !.nS = OffEquilArray(k, 2, xd, yd),
                !.nE = OffEquilArray(k, 3, xd, yd), !.nW = OffEquilArray(k, 4, xd, yd),
                !.nNE = OffEquilArray(k, 5, xd, yd), !.nSE = OffEquilArray(k, 6, xd, yd),
                !.nNW = OffEquilArray(k, 7, xd, yd), !.nSW = OffEquilArray(k, 8, xd, yd)]
    IN  [s EXCEPT !.rho = [i \in DOMAIN s.rho |-> collideMoments(s, i).rho],
                  !.ux = [i \in DOMAIN s.ux |-> collideMoments(s, i).ux],
                  !.uy = [i \in DOMAIN s.uy |-> collideMoments(s, i).uy]]

OffEquilKinds == {1, 2, 3, 4}

InitStep ==
    /\ \/ \E u0 \in Speeds, u1 \in Speeds :
             sim = setBoundaries(initFluid(NewSim(StepXdim, StepYdim), u0), u1)
       \/ \E k \in OffEquilKinds : sim = OffEquilSim(k, StepXdim, StepYdim)
    /\ old = sim
    /\ last = Call("new", << >>, TRUE)
    /\ fuel = StepOps
    /\ NoDriver

NextStep ==
    \/ \E omega \in Omegas : Collide(omega)
    \/ \E omega \in Omegas : CollideStream(omega)
    \/ \E u0 \in Speeds, omega \in Omegas : OneStep(u0, omega)
    \/ ComputeCurl

SpecStep == InitStep /\ [][NextStep]_vars

-----------------------------------------------------------------------------
(* Tracers: initTracers(true), then moveTracers with every outcome of Math.random() *)

MoveTracers(enabled, random) ==
    Do("moveTracers", <<enabled, random>>, TRUE, moveTracers(sim, enabled, random))

\* velocity fields: "calm" is the uniform flow of initFluid(0.1); "east" carries the
\* tracers over the right edge, "west" over the left edge and the top and bottom rows
TracerFields == {"calm", "east", "west"}

TracerVelocity(kind, x, y) ==
    CASE kind = "calm" -> <<Q(1, 10), Zero>>
      [] kind = "east" -> <<Q(3, 4), IF x >= 3 THEN Q(1, 2) ELSE Q(-1, 2)>>
      [] kind = "west" -> <<Q(-(3 + y), 4), Q(x - 2, 4)>>

\* the object with ux and uy of every cell set from the field
WithVelocity(s, kind) ==
    [s EXCEPT !.ux = [i \in DOMAIN s.ux |-> TracerVelocity(kind, i % s.xdim, i \div s.xdim)[1]],
              !.uy = [i \in DOMAIN s.uy |-> TracerVelocity(kind, i % s.xdim, i \div s.xdim)[2]]]

\* values Math.random() may return, in [0, 1)
RandomDraws == {Zero, Q(1, 2), Q(19, 20)}

InitTracers ==
    /\ \E kind \in TracerFields :
          sim = initTracers(WithVelocity(initFluid(NewSim(TracerXdim, TracerYdim), Q(1, 10)),
                                         kind), TRUE)
    /\ old = sim
    /\ last = Call("new", << >>, TRUE)
    /\ fuel = TracerOps
    /\ NoDriver

NextTracers ==
    \/ \E random \in [0..(sim.nTracers - 1) -> RandomDraws] : MoveTracers(TRUE, random)
    \/ MoveTracers(FALSE, NoRandom)

SpecTracers == InitTracers /\ [][NextTracers]_vars


-----------------------------------------------------------------------------
(* Two runs: the same calls made on two objects that differ in the sensor position *)

\* a call made on both objects
DoBoth(op, args, ret, s2, t2) ==
    /\ fuel # 0
    /\ fuel' = IF fuel = Unlimited THEN fuel ELSE fuel - 1
    /\ sim' = s2
    /\ twin' = t2
    /\ old' = sim
    /\ last' = Call(op, args, ret)
    /\ UNCHANGED <<ui, calls>>

\* mousePressDrag while the sensor is dragged: the sensor of the second run is moved
moveSensor(s, x, y) == [s EXCEPT !.sensorX = x, !.sensorY = y]

MoveSensor(x, y) == DoBoth("moveSensor", <<x, y>>, TRUE, sim, moveSensor(twin, x, y))

\* positions the drag gives the sensor: cells of the grid and a point outside it
SensorPositions(s) == {<<0, 0>>, <<3, 3>>, <<s.xdim - 1, s.ydim - 1>>, <<-1, s.ydim>>}

\* the arguments of the calls
SensorSpeeds == {Zero, Q(1, 10)}

SensorOmegas == {One, Q(25, 14)}

SensorCells == {<<4, 4>>, <<3, 3>>, <<1, 1>>}

\* Math.random() returns the same value for every tracer of a run
SensorDraws(s) == {[k \in 0..(s.nTracers - 1) |-> r] : r \in {Zero, Q(19, 20)}}

InitSensor ==
    /\ sim = initTracers(initFluid(NewSim(SensorXdim, SensorYdim), Q(1, 10)), TRUE)
    /\ \E p \in SensorPositions(sim) : twin = moveSensor(sim, p[1], p[2])
    /\ old = sim
    /\ last = Call("new", << >>, TRUE)
    /\ fuel = SensorOps
    /\ ui = << >> /\ calls = << >>

NextSensor ==
    \/ \E p \in SensorPositions(sim) : MoveSensor(p[1], p[2])
    \/ \E u0 \in SensorSpeeds :
          DoBoth("setBoundaries", <<u0>>, TRUE, setBoundaries(sim, u0), setBoundaries(twin, u0))
    \/ \E omega \in SensorOmegas :
          DoBoth("collide", <<omega>>, TRUE, collide(sim, omega), collide(twin, omega))
    \/ DoBoth("stream", << >>, TRUE, stream(sim), stream(twin))
    \/ \E r1 \in SensorDraws(sim), r2 \in SensorDraws(twin) :
          DoBoth("moveTracers", <<TRUE>>, TRUE,
                 moveTracers(sim, TRUE, r1), moveTracers(twin, TRUE, r2))
    \/ \E c \in SensorCells, v \in PushVelocities :
          DoBoth("pushFluid", <<c[1], c[2], v[1], v[2]>>, TRUE,
                 pushFluid(sim, c[1], c[2], v[1], v[2]), pushFluid(twin, c[1], c[2], v[1], v[2]))
    \/ \E c \in SensorCells :
          DoBoth("addBarrier", c, TRUE, addBarrier(sim, c[1], c[2]), addBarrier(twin, c[1], c[2]))
    \/ \E c \in SensorCells :
          DoBoth("removeBarrier", c, TRUE,
                 removeBarrier(sim, c[1], c[2]), removeBarrier(twin, c[1], c[2]))
    \/ DoBoth("clearBarriers", << >>, TRUE, clearBarriers(sim), clearBarriers(twin))
    \/ DoBoth("computeCurl", << >>, TRUE, computeCurl(sim), computeCurl(twin))
    \/ DoBoth("checkStability", << >>, <<checkStability(sim), checkStability(twin)>>, sim, twin)

SpecSensor == InitSensor /\ [][NextSensor]_vars


-----------------------------------------------------------------------------
(* Recovery: initFluid from flows with barriers, tracers, a curl, and densities that *)
(* are zero, negative or NaN                                                         *)

ReinitFluid(u0) == Do("initFluid", <<u0>>, TRUE, initFluid(sim, u0))

\* barrier layouts of the start states: none, one cell of the row checkStability scans,
\* two adjacent cells
RecoverLayouts(yd) == { {}, {<<3, yd \div 2>>}, {<<3, yd \div 2>>, <<4, (yd \div 2) - 1>>} }

\* the flows of the start states: uniform, and out of equilibrium with its curl computed
RecoverFlows(xd, yd) ==
    {initFluid(NewSim(xd, yd), u0) : u0 \in Speeds}
    \cup {computeCurl(OffEquilSim(k, xd, yd)) : k \in {1, 2}}

InitRecover ==
    /\ \E f \in RecoverFlows(RecoverXdim, RecoverYdim),
          ps \in Plants(RecoverXdim, RecoverYdim), cs \in RecoverLayouts(RecoverYdim) :
          sim = initTracers(WithBarriers(WithPlants(f, ps), cs), TRUE)
    /\ old = sim
    /\ last = Call("new", << >>, TRUE)
    /\ fuel = RecoverOps
    /\ NoDriver

NextRecover ==
    \/ \E u0 \in Speeds : ReinitFluid(u0)
    \/ CheckStability

SpecRecover == InitRecover /\ [][NextRecover]_vars

-----------------------------------------------------------------------------
(* Batches: the steps of simulate() after one setBoundaries call, and next to them *)
(* a second run that calls setBoundaries before every step                        *)

\* one pass of the step loop of simulate() on the solver: collide, stream, and pushFluid
\* while the mouse pushes; the tracers are off
simulateStepPushing(s, omega, push) ==
    IF push = << >> THEN stream(collide(s, omega))
    ELSE pushFluid(stream(collide(s, omega)), push[1], push[2], push[3], push[4])

\* simulate() calls setBoundaries(u0); the second run notes u0 and calls it before each step
BeginBatch(u0) ==
    DoBoth("setBoundaries", <<u0>>, TRUE, setBoundaries(sim, u0),
           [twin EXCEPT !.u0 = u0, !.steps = 0])

\* one step of the batch in both runs
BatchStep(omega, push) ==
    /\ twin.u0 # Undefined
    /\ DoBoth("simulateStep", <<omega, push>>, TRUE,
              simulateStepPushing(sim, omega, push),
              [twin EXCEPT !.sim = simulateStepPushing(setBoundaries(@, twin.u0), omega, push),
                           !.steps = @ + 1])

BatchSpeeds == {Zero, Q(1, 10)}

BatchOmegas == {One, Q(25, 14)}

\* no push, and a push at the centre of the grid
BatchPushes == {<< >>, <<4, 4, Q(1, 10), Q(-1, 10)>>}

\* the start states: the fluid at rest with no barrier, with a barrier cell on the west
\* margin, and with a second one on the east margin; and the flow of the page as loaded
BatchStarts ==
    {<<Zero, {}>>, <<Zero, {<<2, 4>>}>>, <<Zero, {<<2, 4>>, <<6, 4>>}>>, <<Q(1, 10), {}>>}

InitBatch ==
    /\ \E b \in BatchStarts :
          sim = WithBarriers(initFluid(NewSim(BatchXdim, BatchYdim), b[1]), b[2])
    /\ twin = [sim |-> sim, u0 |-> Undefined, steps |-> 0]
    /\ old = sim
    /\ last = Call("new", << >>, TRUE)
    /\ fuel = BatchOps
    /\ ui = << >> /\ calls = << >>

NextBatch ==
    \/ \E u0 \in BatchSpeeds : BeginBatch(u0)
    \/ \E omega \in BatchOmegas, push \in BatchPushes : BatchStep(omega, push)

SpecBatch == InitBatch /\ [][NextBatch]_vars

-----------------------------------------------------------------------------
(* The salmon: update() with every combination of arrow keys, in flows that carry it *)
(* to the edges and against barrier cells; the barrier map does not change         *)

\* the arrow keys held down
SalmonKeys ==
    LET K(u, d, l, r) == [up |-> u, down |-> d, left |-> l, right |-> r]
    IN  {K(FALSE, FALSE, FALSE, FALSE), K(TRUE, FALSE, FALSE, FALSE),
         K(FALSE, TRUE, FALSE, FALSE), K(FALSE, FALSE, TRUE, FALSE),
         K(FALSE, FALSE, FALSE, TRUE), K(TRUE, FALSE, TRUE, FALSE),
         K(FALSE, TRUE, FALSE, TRUE), K(TRUE, TRUE, FALSE, FALSE)}

\* the key handlers set the flags, and simulate() calls this.salmon.update with them
SalmonUpdate(input) ==
    /\ fuel # 0
    /\ fuel' = fuel - 1
    /\ ui' = simulateSalmon(
                [World EXCEPT !.ui.upPressed = input.up, !.ui.downPressed = input.down,
                              !.ui.leftPressed = input.left,
                              !.ui.rightPressed = input.right]).ui
    /\ old' = sim
    /\ last' = Call("update", <<input, ui.salmon>>, TRUE)
    /\ UNCHANGED <<sim, calls, twin>>

\* the solver has run and the velocities are those of another field
SetFlow(kind) ==
    /\ fuel # 0
    /\ fuel' = fuel - 1
    /\ sim' = WithVelocity(sim, kind)
    /\ sim' # sim
    /\ old' = sim
    /\ last' = Call("flow", <<kind>>, TRUE)
    /\ UNCHANGED <<ui, calls, twin>>

\* where the salmon is at the start: the centre of the grid (the page as loaded), next
\* to a barrier cell, in a corner
SalmonStarts(s) == {<<Q(s.xdim, 2), Q(s.ydim, 2)>>, <<One, Num(2)>>, <<Zero, Zero>>}

\* its stamina at the start: full, enough for one stroke, none
SalmonStaminas == {Num(10), Q(1, 20), Zero}

SalmonLayouts == {{}, {<<2, 2>>}, {<<2, 2>>, <<3, 2>>}}

InitSalmon ==
    /\ \E kind \in TracerFields, cs \in SalmonLayouts :
          sim = WithVelocity(
                    WithBarriers(initFluid(NewSim(SalmonXdim, SalmonYdim), Q(1, 10)), cs),
                    kind)
    /\ \E p \in SalmonStarts(sim), st \in SalmonStaminas :
          ui = [NewUI(sim, 1) EXCEPT !.salmon.x = p[1], !.salmon.y = p[2],
                                     !.salmon.stamina = st]
    /\ calls = << >>
    /\ NoTwin
    /\ old = sim
    /\ last = Call("new", << >>, TRUE)
    /\ fuel = SalmonOps

NextSalmon ==
    \/ \E input \in SalmonKeys : SalmonUpdate(input)
    \/ \E kind \in TracerFields : SetFlow(kind)

SpecSalmon == InitSalmon /\ [][NextSalmon]_vars

-----------------------------------------------------------------------------
(* The driver: clicks on Run/Pause, Step and Reset, the steps slider, and the *)
(* callbacks that simulate() schedules.  The speed and viscosity sliders stay *)
(* at their initial values 0.1 and 0.02.                                      *)

\* an event handler that leaves the solver, the controller and the calls as in w; the
\* call noted in last carries running and pending as they were when the handler started
Event(name, w) ==
    /\ fuel # 0
    /\ fuel' = IF fuel = Unlimited THEN fuel ELSE fuel - 1
    /\ sim' = w.sim
    /\ ui' = w.ui
    /\ calls' = w.calls
    /\ old' = sim
    /\ last' = Call(name, <<ui.running, ui.pending>>, TRUE)
    /\ UNCHANGED twin

\* a click on the Run/Pause button
ClickStart == Event("startStop", startStop(World))

\* a callback scheduled by simulate() runs
Callback ==
    /\ ui.pending > 0
    /\ Event("simulate", simulate([World EXCEPT !.ui.pending = @ - 1]))

\* a click on the Step button, noted in the record of calls as "step"
ClickStep == Event("collideStreamAndPaint", collideStreamAndPaint(Logged(World, 0, "step")))

\* a click on the Reset fluid button
ClickResetFluid == Event("resetFluid", initFluidFromSlider(World, NextFrame(World)))

\* the steps slider is moved to n
InputSteps(n) ==
    /\ n # ui.stepsSlider
    /\ Event("stepsSlider", [World EXCEPT !.ui.stepsSlider = n])

InitDriver ==
    /\ sim = initFluid(NewSim(DriverXdim, DriverYdim), Q(1, 10))
    /\ \E n \in 1..MaxSteps : ui = NewUI(sim, n)
    /\ calls = << >>
    /\ NoTwin
    /\ old = sim
    /\ last = Call("new", << >>, TRUE)
    /\ fuel = DriverEvents

NextDriver ==
    \/ ClickStart
    \/ Callback
    \/ ClickStep
    \/ ClickResetFluid
    \/ \E n \in 1..MaxSteps : InputSteps(n)

SpecDriver == InitDriver /\ [][NextDriver]_vars

-----------------------------------------------------------------------------
(* The driver on a diverging fluid: Run/Pause clicks and callbacks, starting  *)
(* with the controller paused and idle and the fluid as a diverging run has   *)
(* left it: one cell holds the equilibrium populations of a density <= 0.     *)
(* The speed slider is at 0 and the viscosity slider at 0.1 (omega = 5/4).    *)

\* the cells planted: in the row checkStability scans, and in the row below it, from
\* where the populations reach the scanned row one step later
UnstableCells(s) == {<<s.xdim \div 2, s.ydim \div 2>>, <<s.xdim \div 2, (s.ydim \div 2) - 1>>}

\* the densities planted: with -8 a neighbour's density becomes exactly 0 and its
\* velocity NaN, with -17 it becomes negative
UnstableDensities == {Num(-8), Num(-17)}

InitUnstable ==
    /\ \E c \in UnstableCells(NewSim(DriverXdim, DriverYdim)), r \in UnstableDensities :
          sim = setEquil(initFluid(NewSim(DriverXdim, DriverYdim), Zero),
                         c[1], c[2], Zero, Zero, r)
    /\ ui = [NewUI(sim, 1) EXCEPT !.speedSlider = Zero, !.viscSlider = Q(1, 10)]
    /\ calls = << >>
    /\ NoTwin
    /\ old = sim
    /\ last = Call("new", << >>, TRUE)
    /\ fuel = UnstableEvents

NextUnstable ==
    \/ ClickStart
    \/ Callback
    \/ ClickResetFluid

SpecUnstable == InitUnstable /\ [][NextUnstable]_vars

-----------------------------------------------------------------------------
(* Vocabulary of the properties *)

\* the array of slot d (0 n0, 1 nN, 2 nS, 3 nE, 4 nW, 5 nNE, 6 nSE, 7 nNW, 8 nSW)
Slot(s, d) ==
    CASE d = 0 -> s.n0 [] d = 1 -> s.nN [] d = 2 -> s.nS [] d = 3 -> s.nE [] d = 4 -> s.nW
      [] d = 5 -> s.nNE [] d = 6 -> s.nSE [] d = 7 -> s.nNW [] d = 8 -> s.nSW

\* the lattice step of slot d and the slot of the opposite direction
Ex(d) == <<0, 0, 0, 1, -1, 1, 1, -1, -1>>[d + 1]

Ey(d) == <<0, 1, -1, 0, 0, 1, -1, 1, -1>>[d + 1]

Opp(d) == <<0, 2, 1, 4, 3, 8, 7, 6, 5>>[d + 1]

At(arr, x, y, s) == arr[Idx(x, y, s.xdim)]

AllCells(s) == (0..(s.xdim - 1)) \X (0..(s.ydim - 1))

Interior(s) == (1..(s.xdim - 2)) \X (1..(s.ydim - 2))

IsBarrier(s, x, y) == At(s.barrier, x, y, s) # 0

BarrierCells(s) == {c \in AllCells(s) : IsBarrier(s, c[1], c[2])}

RECURSIVE SumOver(_, _)
SumOver(cs, k) ==
    IF cs = {} THEN 0
    ELSE LET c == CHOOSE c \in cs : TRUE IN c[k] + SumOver(cs \ {c}, k)

Adjacent(a, b) == a # b /\ Abs(a[1] - b[1]) <= 1 /\ Abs(a[2] - b[2]) <= 1

\* the value the sweeps of stream() move into slot d of cell c: the upstream neighbour's
Inbound(s, d, c) == At(Slot(s, d), c[1] - Ex(d), c[2] - Ey(d), s)

RECURSIVE RSumOver(_, _, _)
RSumOver(F(_, _), s, cs) ==
    IF cs = {} THEN Zero
    ELSE LET c == CHOOSE c \in cs : TRUE IN RAdd(F(s, c), RSumOver(F, s, cs \ {c}))

\* the force terms of one barrier cell, from the populations streamed into it
InboundFx(s, c) ==
    RSub(RAdd(RAdd(Inbound(s, 3, c), Inbound(s, 5, c)), Inbound(s, 6, c)),
         RAdd(RAdd(Inbound(s, 4, c), Inbound(s, 7, c)), Inbound(s, 8, c)))

InboundFy(s, c) ==
    RSub(RAdd(RAdd(Inbound(s, 1, c), Inbound(s, 5, c)), Inbound(s, 7, c)),
         RAdd(RAdd(Inbound(s, 2, c), Inbound(s, 6, c)), Inbound(s, 8, c)))

\* mirror symmetry of the populations about row r, and about column c
RowSymmetric(s, r) ==
    \A x \in 0..(s.xdim - 1), k \in 1..s.ydim :
        (r - k >= 0 /\ r + k <= s.ydim - 1) =>
            /\ At(s.nN, x, r - k, s) = At(s.nS, x, r + k, s)
            /\ At(s.nNE, x, r - k, s) = At(s.nSE, x, r + k, s)
            /\ At(s.nNW, x, r - k, s) = At(s.nSW, x, r + k, s)

ColSymmetric(s, c) ==
    \A y \in 0..(s.ydim - 1), k \in 1..s.xdim :
        (c - k >= 0 /\ c + k <= s.xdim - 1) =>
            /\ At(s.nE, c - k, y, s) = At(s.nW, c + k, y, s)
            /\ At(s.nNE, c - k, y, s) = At(s.nNW, c + k, y, s)
            /\ At(s.nSE, c - k, y, s) = At(s.nSW, c + k, y, s)

-----------------------------------------------------------------------------
(* Properties of stream() *)

\* C1: with no barrier cell, after stream() every interior cell holds in each of its 8
\* directional slots the value its upstream neighbour held in that slot before the call
C1_StreamIsShift ==
    (last.op = "stream" /\ BarrierCells(old) = {}) =>
        \A c \in Interior(sim), d \in 1..8 :
            At(Slot(sim, d), c[1], c[2], sim) = Inbound(old, d, c)

C1_Witness ==
    /\ last.op = "stream" /\ BarrierCells(old) = {}
    /\ \A d \in 1..8 : \E c \in Interior(sim) :
          At(Slot(sim, d), c[1], c[2], sim) # At(Slot(old, d), c[1], c[2], old)

\* C2: after stream(), a non-barrier interior cell c whose neighbour against direction d is
\* a barrier cell holds in slot d the value c itself held in the opposite slot before
C2_BounceBack ==
    last.op = "stream" =>
        \A c \in Interior(sim), d \in 1..8 :
            (~IsBarrier(sim, c[1], c[2]) /\ IsBarrier(sim, c[1] - Ex(d), c[2] - Ey(d))) =>
                At(Slot(sim, d), c[1], c[2], sim) = At(Slot(old, Opp(d)), c[1], c[2], old)

\* two adjacent barrier cells, both with fluid neighbours, have bounced populations back
C2_Witness ==
    /\ last.op = "stream"
    /\ \E a \in BarrierCells(sim), b \in BarrierCells(sim) : Adjacent(a, b)
    /\ \E c \in Interior(sim), d \in 1..8 :
          /\ ~IsBarrier(sim, c[1], c[2]) /\ IsBarrier(sim, c[1] - Ex(d), c[2] - Ey(d))
          /\ At(Slot(sim, d), c[1], c[2], sim) # Inbound(old, d, c)

\* C4: every stream() recomputes the accumulators from scratch: the count of the barrier
\* cells, the sums of their coordinates, and zeros when there is no barrier cell
C4_Accumulators ==
    last.op = "stream" =>
        /\ sim.barrierCount = Cardinality(BarrierCells(sim))
        /\ sim.barrierxSum = SumOver(BarrierCells(sim), 1)
        /\ sim.barrierySum = SumOver(BarrierCells(sim), 2)
        /\ \A c \in BarrierCells(sim) :
              BarrierCells(sim) = {c} =>
                  /\ sim.barrierxSum = c[1] * sim.barrierCount
                  /\ sim.barrierySum = c[2] * sim.barrierCount
        /\ BarrierCells(sim) = {} =>
              /\ sim.barrierCount = 0 /\ sim.barrierxSum = 0 /\ sim.barrierySum = 0
              /\ sim.barrierFx = Zero /\ sim.barrierFy = Zero

\* a stream() that found accumulators left by an earlier call with another barrier layout
C4_Witness ==
    /\ last.op = "stream"
    /\ old.barrierCount > 0 /\ old.barrierFx # Zero
    /\ sim.barrierCount = 0

\* C5, as claimed: after stream() the force is the sum over all barrier cells of the
\* populations the sweeps moved into them, for every layout, adjacent barrier cells included
C5_ForceAnyLayout ==
    last.op = "stream" =>
        /\ sim.barrierFx = RSumOver(InboundFx, old, BarrierCells(sim))
        /\ sim.barrierFy = RSumOver(InboundFy, old, BarrierCells(sim))

\* the same sums, for the layouts in which no two barrier cells are neighbours: there no
\* bounce-back write lands in a barrier cell, and the scan reads what the sweeps moved in
C5_ForceIsolated ==
    (last.op = "stream" /\ \A a, b \in BarrierCells(sim) : ~Adjacent(a, b)) =>
        /\ sim.barrierFx = RSumOver(InboundFx, old, BarrierCells(sim))
        /\ sim.barrierFy = RSumOver(InboundFy, old, BarrierCells(sim))

\* stream() with two barrier cells one above the other: the bounce-back write of the lower
\* one has replaced the north slot of the upper one before the scan reaches it
C5_Witness ==
    /\ last.op = "stream"
    /\ \E a \in BarrierCells(sim) :
          /\ BarrierCells(sim) = {a, <<a[1], a[2] + 1>>}
          /\ Inbound(old, 2, a) # Inbound(old, 1, <<a[1], a[2] + 1>>)
    /\ sim.barrierFy # RSumOver(InboundFy, old, BarrierCells(sim))

\* C6: for a single barrier cell (bx, by), populations mirror-symmetric about row by give
\* barrierFy = 0 after stream(), and populations mirror-symmetric about column bx give
\* barrierFx = 0
C6_SymmetricForce ==
    last.op = "stream" =>
        \A b \in BarrierCells(sim) :
            BarrierCells(sim) = {b} =>
                /\ RowSymmetric(old, b[2]) => sim.barrierFy = Zero
                /\ ColSymmetric(old, b[1]) => sim.barrierFx = Zero

C6_Witness ==
    /\ last.op = "stream"
    /\ \E b \in BarrierCells(sim) :
          /\ BarrierCells(sim) = {b}
          /\ RowSymmetric(old, b[2]) /\ ColSymmetric(old, b[1])
          /\ sim.barrierFy = Zero /\ sim.barrierFx = Zero
          /\ Inbound(old, 1, b) # Zero /\ Inbound(old, 3, b) # Zero

-----------------------------------------------------------------------------
(* Properties of barrier editing *)

\* the cells at least 2 cells away from every edge of the grid
InsideMargin(s, x, y) == 2 <= x /\ x <= s.xdim - 3 /\ 2 <= y /\ y <= s.ydim - 3

\* C3: addBarrier(x, y) sets the flag of cell (x, y) exactly when 2 <= x <= xdim-3 and
\* 2 <= y <= ydim-3 and otherwise changes nothing; so after any sequence of addBarrier,
\* removeBarrier, clearBarriers and placeBarrierShape calls from an empty map no cell
\* within 2 cells of an edge is a barrier cell
C3_BarrierMargin ==
    /\ last.op = "addBarrier" =>
          LET x == last.args[1]
              y == last.args[2]
          IN  IF InsideMargin(old, x, y)
              THEN /\ IsBarrier(sim, x, y)
                   /\ sim = [old EXCEPT !.barrier[Idx(x, y, old.xdim)] = 1]
              ELSE sim = old
    /\ \A c \in BarrierCells(sim) : InsideMargin(sim, c[1], c[2])

\* addBarrier has set the flag of the accepted cell nearest the far corner, and an
\* earlier call has been refused or undone
C3_Witness ==
    /\ last.op = "addBarrier"
    /\ last.args = <<sim.xdim - 3, sim.ydim - 3>>
    /\ ~IsBarrier(old, sim.xdim - 3, sim.ydim - 3)
    /\ BarrierCells(sim) = {<<sim.xdim - 3, sim.ydim - 3>>}

-----------------------------------------------------------------------------
(* Properties of pushFluid, checkStability and setBoundaries *)

\* the cells in which the populations, rho, ux or uy of s and t differ
ChangedCells(s, t) ==
    {c \in AllCells(s) :
        \/ \E d \in 0..8 : At(Slot(s, d), c[1], c[2], s) # At(Slot(t, d), c[1], c[2], t)
        \/ At(s.rho, c[1], c[2], s) # At(t.rho, c[1], c[2], t)
        \/ At(s.ux, c[1], c[2], s) # At(t.ux, c[1], c[2], t)
        \/ At(s.uy, c[1], c[2], s) # At(t.uy, c[1], c[2], t)}

\* C7, as claimed: a pushFluid call that changes anything overwrites only cells with
\* 3 <= cx <= xdim-4 and 3 <= cy <= ydim-4, and any other call changes nothing
C7_PushThreeFromEdge ==
    last.op = "pushFluid" =>
        \A c \in ChangedCells(old, sim) :
            /\ 3 <= c[1] /\ c[1] <= sim.xdim - 4
            /\ 3 <= c[2] /\ c[2] <= sim.ydim - 4

\* C7, amended: pushFluid(x, y, ..) takes effect only if 4 <= x <= xdim-5 and
\* 4 <= y <= ydim-5; every cell it changes is within 2 columns and 2 rows of (x, y), so
\* satisfies 2 <= cx <= xdim-3 and 2 <= cy <= ydim-3; any other call changes nothing
C7_PushTwoFromEdge ==
    last.op = "pushFluid" =>
        LET x == last.args[1]
            y == last.args[2]
        IN  IF 4 <= x /\ x <= sim.xdim - 5 /\ 4 <= y /\ y <= sim.ydim - 5
            THEN \A c \in ChangedCells(old, sim) :
                    /\ Abs(c[1] - x) <= 2 /\ Abs(c[2] - y) <= 2
                    /\ 2 <= c[1] /\ c[1] <= sim.xdim - 3
                    /\ 2 <= c[2] /\ c[2] <= sim.ydim - 3
            ELSE sim = old

\* a push at the accepted target nearest the origin has changed cells of column 2 and row 2
C7_Witness ==
    /\ last.op = "pushFluid"
    /\ last.args[1] = 4 /\ last.args[2] = 4
    /\ <<2, 4>> \in ChangedCells(old, sim)
    /\ <<4, 2>> \in ChangedCells(old, sim)

\* C8: checkStability() returns false exactly when some cell of row floor(ydim/2) has
\* rho <= 0, returns true when every cell of that row has rho > 0, and changes nothing
C8_CheckStability ==
    last.op = "checkStability" =>
        LET mid == sim.ydim \div 2
            row == {At(old.rho, x, mid, old) : x \in 0..(sim.xdim - 1)}
        IN  /\ (last.ret = FALSE) <=> (\E r \in row : RLe(r, Zero))
            /\ (\A r \in row : RGt(r, Zero)) => last.ret = TRUE
            /\ sim = old

\* checkStability has returned false for a mid row with a single density that is <= 0
C8_Witness ==
    /\ last.op = "checkStability"
    /\ last.ret = FALSE
    /\ Cardinality({x \in 0..(sim.xdim - 1) :
                       RLe(At(sim.rho, x, sim.ydim \div 2, sim), Zero)}) = 1

\* the weight of slot d, and the equilibrium population of slot d for density r and
\* velocity (vx, vy): w * r * (1 + 3 e.u + 4.5 (e.u)^2 - 1.5 |u|^2)
Weight(d) == IF d = 0 THEN Q(4, 9) ELSE IF d <= 4 THEN Q(1, 9) ELSE Q(1, 36)

Equilibrium(d, r, vx, vy) ==
    LET eu == RAdd(RMul(Num(Ex(d)), vx), RMul(Num(Ey(d)), vy))
        u2 == RAdd(RMul(vx, vx), RMul(vy, vy))
    IN  RMul(RMul(Weight(d), r),
             RSub(RAdd(RAdd(One, RMul(Num(3), eu)), RMul(Q(9, 2), RMul(eu, eu))),
                  RMul(Q(3, 2), u2)))

EdgeCells(s) == AllCells(s) \ Interior(s)

\* C9: after setBoundaries(u0) every cell of the four edges, corners included, has rho = 1,
\* ux = u0, uy = 0 and the nine equilibrium populations of those values, and no interior
\* cell has changed
C9_SetBoundaries ==
    last.op = "setBoundaries" =>
        LET u0 == last.args[1]
        IN  /\ \A c \in EdgeCells(sim) :
                  /\ At(sim.rho, c[1], c[2], sim) = One
                  /\ At(sim.ux, c[1], c[2], sim) = u0
                  /\ At(sim.uy, c[1], c[2], sim) = Zero
                  /\ \A d \in 0..8 :
                        At(Slot(sim, d), c[1], c[2], sim) = Equilibrium(d, One, u0, Zero)
            /\ ChangedCells(old, sim) \subseteq EdgeCells(sim)
            /\ sim.barrier = old.barrier /\ sim.curl = old.curl

\* setBoundaries has rewritten all four corners and an edge cell whose density was not 1
C9_Witness ==
    /\ last.op = "setBoundaries"
    /\ {<<0, 0>>, <<sim.xdim - 1, 0>>, <<0, sim.ydim - 1>>, <<sim.xdim - 1, sim.ydim - 1>>}
          \subseteq ChangedCells(old, sim)
    /\ \E c \in EdgeCells(old) : At(old.rho, c[1], c[2], old) # One
    /\ last.args[1] # Zero

-----------------------------------------------------------------------------
(* Properties of the driver *)

\* the positions in the record of calls at which the solver operation op was called
CallsOf(op) == {i \in DOMAIN calls : calls[i][2] = op}

StepCalls == CallsOf("collide") \cup CallsOf("stream")

\* C11, as claimed: once startStop has set running to false, no collide or stream call is
\* made until Run or Step is pressed again, whatever callbacks were scheduled at the pause
C11_PauseStopsStepping ==
    \A i \in CallsOf("pause"), j \in StepCalls :
        i < j => \E k \in CallsOf("run") \cup CallsOf("step") : i < k /\ k < j

\* a callback that was scheduled before a click on Pause has run after it: the pause is
\* followed at once by the setBoundaries call and the steps of a frame
C11_Witness ==
    /\ last.op = "simulate"
    /\ ~ui.running
    /\ \E i \in CallsOf("pause") :
          /\ i + 2 <= Len(calls)
          /\ calls[i + 1][2] = "setBoundaries"
          /\ calls[i + 2][2] = "collide"

\* what the code does ensure: every chain of callbacks is started by a Run, and a chain
\* has at most one callback pending
C11_OneCallbackPerRun == ui.pending <= Cardinality(CallsOf("run"))

\* the handler that has just run was a Run click or a callback whose frame ended with
\* checkStability() returning false: its last solver call is the initFluid that follows
UnstableFrameHandled ==
    /\ last.op \in {"startStop", "simulate"}
    /\ calls # << >>
    /\ calls[Len(calls)][2] = "initFluid"

\* the callbacks pending before the handler ran, less the one that ran
PendingLeft == IF last.op = "simulate" THEN last.args[2] - 1 ELSE last.args[2]

\* C12, as claimed: when the handling of a frame that ended with checkStability() false is
\* finished, running is false, no further callback has been scheduled and the fluid is
\* as initFluid leaves it, for every interleaving of Run/Pause clicks and callbacks
C12_UnstablePausesAndResets ==
    UnstableFrameHandled =>
        /\ ~ui.running
        /\ ui.pending <= PendingLeft
        /\ sim = initFluid(sim, ui.speedSlider)

\* a callback scheduled before a click on Pause has run its frame while paused, the frame
\* ended unstable, and startStop() has set running back to true
C12_Witness ==
    /\ UnstableFrameHandled
    /\ last.op = "simulate" /\ last.args[1] = FALSE
    /\ ui.running

\* the case the code does handle: an unstable frame that started with running true ends
\* paused, with nothing scheduled and the fluid reinitialised
C12_RunningFramePauses ==
    (UnstableFrameHandled /\ (last.op = "startStop" \/ last.args[1] = TRUE)) =>
        /\ ~ui.running
        /\ ui.pending <= PendingLeft
        /\ sim = initFluid(sim, ui.speedSlider)

-----------------------------------------------------------------------------
(* Properties of moveTracers *)

Clamp(k, lo, hi) == IF k < lo THEN lo ELSE IF k > hi THEN hi ELSE k

\* the grid cell nearest to the position (px, py)
NearestCell(s, px, py) ==
    <<Clamp(Round(px), 0, s.xdim - 1), Clamp(Round(py), 0, s.ydim - 1)>>

\* tracer k has been moved from (px, py) by the velocity of cell c, or relocated
TracerMoved(k, c) ==
    LET nx == RAdd(old.tracerX[k], At(old.ux, c[1], c[2], old))
        ny == RAdd(old.tracerY[k], At(old.uy, c[1], c[2], old))
    IN  IF RGt(nx, Num(old.xdim - 1))
        THEN /\ sim.tracerX[k] = Zero
             /\ RLe(Zero, sim.tracerY[k]) /\ RLt(sim.tracerY[k], Num(old.ydim))
        ELSE sim.tracerX[k] = nx /\ sim.tracerY[k] = ny

\* everything but the tracer positions is as before
TracersOnly == [sim EXCEPT !.tracerX = old.tracerX, !.tracerY = old.tracerY] = old

\* C13, as claimed: moveTracers(true) advances each tracer by the velocity of the grid cell
\* nearest to its position, relocates it to x = 0 and a y in [0, ydim) exactly when its
\* new x exceeds xdim-1, and moveTracers(false) changes nothing
C13_TracersFollowNearestCell ==
    last.op = "moveTracers" =>
        IF last.args[1]
        THEN /\ TracersOnly
             /\ \A k \in DOMAIN old.tracerX :
                   (IsFinite(old.tracerX[k]) /\ IsFinite(old.tracerY[k])) =>
                       TracerMoved(k, NearestCell(old, old.tracerX[k], old.tracerY[k]))
        ELSE sim = old

\* the position of tracer k rounds to a cell of the grid
RoundsIntoGrid(s, k) ==
    /\ IsFinite(s.tracerX[k]) /\ IsFinite(s.tracerY[k])
    /\ 0 <= Round(s.tracerX[k]) /\ Round(s.tracerX[k]) <= s.xdim - 1
    /\ 0 <= Round(s.tracerY[k]) /\ Round(s.tracerY[k]) <= s.ydim - 1

\* the same for the tracers whose position rounds to a cell of the grid; the others read
\* the velocity at an index outside the arrays, or at the index of another cell
C13_TracersInGrid ==
    last.op = "moveTracers" =>
        IF last.args[1]
        THEN /\ TracersOnly
             /\ \A k \in DOMAIN old.tracerX :
                   RoundsIntoGrid(old, k) =>
                       TracerMoved(k, NearestCell(old, old.tracerX[k], old.tracerY[k]))
        ELSE sim = old

\* a tracer that an earlier call relocated to x = 0 and a y in [ydim - 1/2, ydim) has read
\* its velocity outside the arrays, and its position is NaN
C13_Witness ==
    /\ last.op = "moveTracers" /\ last.args[1]
    /\ \E k \in DOMAIN old.tracerX :
          /\ old.tracerX[k] = Zero
          /\ RLe(Zero, old.tracerY[k]) /\ RLt(old.tracerY[k], Num(old.ydim))
          /\ IsNaN(sim.tracerX[k]) /\ IsNaN(sim.tracerY[k])

-----------------------------------------------------------------------------
(* Properties of placeBarrierShape *)

\* the coordinate pairs (locs[1], locs[2]), (locs[3], locs[4]), ... of a shape
ShapePairs(locs) == {<<locs[2 * k - 1], locs[2 * k]>> : k \in 1..(Len(locs) \div 2)}

\* C14: placeBarrierShape(index) with an index that names a shape leaves as barrier cells
\* exactly the shape's pairs with 2 <= x <= xdim-3 and 2 <= y <= ydim-3; the other pairs
\* are ignored, no earlier barrier cell survives, and nothing but the barrier map changes
C14_PlaceBarrierShape ==
    (last.op = "placeBarrierShape" /\ last.args[1] \in 1..Len(barrierList)) =>
        /\ BarrierCells(sim) =
              {c \in ShapePairs(barrierList[last.args[1]].locations) :
                  InsideMargin(sim, c[1], c[2])}
        /\ [sim EXCEPT !.barrier = old.barrier] = old

\* a shape with pairs inside and outside the margin has replaced a barrier cell that is
\* not part of it
C14_Witness ==
    /\ last.op = "placeBarrierShape" /\ last.args[1] \in 1..Len(barrierList)
    /\ \E c \in BarrierCells(old) : c \notin BarrierCells(sim)
    /\ BarrierCells(sim) # {}
    /\ \E c \in ShapePairs(barrierList[last.args[1]].locations) :
          ~InsideMargin(sim, c[1], c[2])

-----------------------------------------------------------------------------
(* Properties of setEquil *)

\* the nine populations of cell i, in the order n0, nN, nS, nE, nW, nNE, nSE, nNW, nSW
PopsAt(s, i) == [d \in 1..9 |-> Slot(s, d - 1)[i]]

\* the first moments of the populations of cell i
MomentX(s, i) ==
    RSub(RSum(<<s.nE[i], s.nNE[i], s.nSE[i]>>), RSum(<<s.nW[i], s.nNW[i], s.nSW[i]>>))

MomentY(s, i) ==
    RSub(RSum(<<s.nN[i], s.nNE[i], s.nNW[i]>>), RSum(<<s.nS[i], s.nSE[i], s.nSW[i]>>))

\* C15: after setEquil(x, y, ux, uy, rho) with rho > 0 the nine populations of the cell
\* sum to rho, their first moments divided by rho are ux and uy, and the stored rho, ux
\* and uy are the arguments; no other cell changes
C15_EquilRoundTrip ==
    (last.op = "setEquil" /\ RGt(last.args[5], Zero)) =>
        LET i == Idx(last.args[1], last.args[2], sim.xdim)
        IN  /\ RSum(PopsAt(sim, i)) = last.args[5]
            /\ RDiv(MomentX(sim, i), last.args[5]) = last.args[3]
            /\ RDiv(MomentY(sim, i), last.args[5]) = last.args[4]
            /\ sim.rho[i] = last.args[5]
            /\ sim.ux[i] = last.args[3]
            /\ sim.uy[i] = last.args[4]
            /\ collideMoments(sim, i) =
                  [rho |-> last.args[5], ux |-> last.args[3], uy |-> last.args[4]]
            /\ ChangedCells(old, sim) \subseteq {<<last.args[1], last.args[2]>>}

\* setEquil has replaced populations that were not an equilibrium by those of a density
\* other than 1 and a velocity with two non-zero components of opposite sign
C15_Witness ==
    /\ last.op = "setEquil"
    /\ last.args[5] = Q(1, 3)
    /\ last.args[3] = Q(2, 3) /\ last.args[4] = Q(-1, 2)
    /\ LET i == Idx(last.args[1], last.args[2], sim.xdim)
       IN  /\ old.nE[i] = Num(Tag(3, last.args[1], last.args[2]))
           /\ sim.nE[i] # old.nE[i]

-----------------------------------------------------------------------------
(* Properties of a step: setBoundaries, collide, stream *)

\* slot d of cell c
Pop(s, d, c) == At(Slot(s, d), c[1], c[2], s)

\* C16: from initFluid(u0) with no barriers, setBoundaries(u0); collide(omega); stream()
\* leaves rho, ux, uy of every interior cell at (1, u0, 0) and every population of every
\* cell as it was, whatever omega is
C16_UniformIsFixedPoint ==
    (/\ last.op = "oneStep"
     /\ old = initFluid(NewSim(old.xdim, old.ydim), last.args[1])
     /\ BarrierCells(old) = {}) =>
        /\ \A c \in Interior(sim) :
              /\ At(sim.rho, c[1], c[2], sim) = One
              /\ At(sim.ux, c[1], c[2], sim) = last.args[1]
              /\ At(sim.uy, c[1], c[2], sim) = Zero
        /\ \A c \in AllCells(sim), d \in 0..8 : Pop(sim, d, c) = Pop(old, d, c)
        /\ sim = old

\* a step with omega = 25/14 on the flow of initFluid(0.1)
C16_Witness ==
    /\ last.op = "oneStep"
    /\ last.args = <<Q(1, 10), Q(25, 14)>>
    /\ old = initFluid(NewSim(StepXdim, StepYdim), Q(1, 10))
    /\ Pop(sim, 3, <<1, 1>>) = Q(133, 900)
    /\ Pop(sim, 4, <<1, 1>>) = Q(73, 900)

\* the total of the nine populations of the interior cells
CellTotal(s, c) == RSum(PopsAt(s, Idx(c[1], c[2], s.xdim)))

InteriorTotal(s) == RSumOver(CellTotal, s, Interior(s))

\* the cell upstream and the cell downstream of c in direction d
Upstream(d, c) == <<c[1] - Ex(d), c[2] - Ey(d)>>

Downstream(d, c) == <<c[1] + Ex(d), c[2] + Ey(d)>>

\* what stream() moves into slot sd[2] of the interior cell c of sd[1] from an edge cell
InboundFromEdge(sd, c) ==
    IF Upstream(sd[2], c) \in EdgeCells(sd[1]) THEN Inbound(sd[1], sd[2], c) ELSE Zero

\* what the interior cell c of sd[1] holds in slot sd[2] when that slot points at an
\* edge cell
OutboundToEdge(sd, c) ==
    IF Downstream(sd[2], c) \in EdgeCells(sd[1]) THEN Pop(sd[1], sd[2], c) ELSE Zero

StreamedIn(s) == RSum([d \in 1..8 |-> RSumOver(InboundFromEdge, <<s, d>>, Interior(s))])

StreamedOut(s) == RSum([d \in 1..8 |-> RSumOver(OutboundToEdge, <<s, d>>, Interior(s))])

\* the balance of stream() from the populations of mid to those of s, and of collide
\* from o to mid
MassBalance(o, mid, s) ==
    /\ InteriorTotal(mid) = InteriorTotal(o)
    /\ InteriorTotal(s) = RSub(RAdd(InteriorTotal(o), StreamedIn(mid)), StreamedOut(mid))
    /\ \A c \in Interior(mid), d \in 1..8 :
          Upstream(d, c) \in Interior(mid) => Pop(s, d, c) = Inbound(mid, d, c)
    /\ \A c \in Interior(mid) : Pop(s, 0, c) = Pop(mid, 0, c)
    /\ IsFinite(InteriorTotal(s))

\* C17: with no barriers, over collide(omega); stream() the total of the populations of
\* the interior cells becomes the old total plus what stream() moves in from edge cells
\* minus what the interior cells held in slots pointing at edge cells; every slot fed
\* from an interior cell holds exactly what that cell held after collide, and n0 stays
C17_MassBalance ==
    (last.op = "collideStream" /\ BarrierCells(old) = {}) =>
        MassBalance(old, collide(old, last.args[1]), sim)

\* the pair has acted on populations out of equilibrium, and the interior total has
\* changed: what came in from the edge differs from what was aimed at it
C17_Witness ==
    /\ last.op = "collideStream"
    /\ last.args[1] = Q(25, 14)
    /\ old = OffEquilSim(2, StepXdim, StepYdim)
    /\ InteriorTotal(sim) # InteriorTotal(old)
    /\ StreamedIn(collide(old, last.args[1])) # StreamedOut(collide(old, last.args[1]))

-----------------------------------------------------------------------------
(* Properties of collide *)

\* the slots pointing west: nW, nNW, nSW
WestSlots == {4, 7, 8}

EastCell(s, y) == <<s.xdim - 1, y>>

InboardCell(s, y) == <<s.xdim - 2, y>>

OutflowCopied(s, y) ==
    \A d \in WestSlots : Pop(s, d, EastCell(s, y)) = Pop(s, d, InboardCell(s, y))

\* C18: after collide(omega), in every interior row y with 1 <= y <= ydim-2, nW, nNW and
\* nSW of the cell (xdim-1, y) equal those of the cell (xdim-2, y) as the interior
\* pass left them
C18_OutflowEveryInteriorRow ==
    last.op = "collide" => \A y \in 1..(sim.ydim - 2) : OutflowCopied(sim, y)

\* collide copies the three slots in the rows 1..ydim-3 and leaves the east column of
\* every other row, the last interior row included, as it was
C18_OutflowRows ==
    last.op = "collide" =>
        /\ \A y \in 1..(sim.ydim - 3) : OutflowCopied(sim, y)
        /\ \A y \in {0, sim.ydim - 2, sim.ydim - 1}, d \in 0..8 :
              Pop(sim, d, EastCell(sim, y)) = Pop(old, d, EastCell(old, y))
        /\ \A y \in 0..(sim.ydim - 1), d \in (0..8) \ WestSlots :
              Pop(sim, d, EastCell(sim, y)) = Pop(old, d, EastCell(old, y))

\* the speed slider was moved from 0.1 to 0 and the boundaries set: collide leaves
\* nW of the east cell of row ydim-2 at 1/9 while the cell inboard of it holds 73/900
C18_Witness ==
    /\ last.op = "collide"
    /\ old = setBoundaries(initFluid(NewSim(StepXdim, StepYdim), Q(1, 10)), Zero)
    /\ Pop(sim, 4, EastCell(sim, sim.ydim - 2)) = Q(1, 9)
    /\ Pop(sim, 4, InboardCell(sim, sim.ydim - 2)) = Q(73, 900)
    /\ Pop(sim, 4, EastCell(sim, sim.ydim - 3)) = Q(73, 900)

\* the density of cell c as its populations give it
Density(s, c) == CellTotal(s, c)

\* C19: for every interior cell whose populations sum to a positive density,
\* collide(omega) stores that sum in rho and the first moments divided by it in ux and
\* uy, and leaves the sum and both first moments of the cell's populations as they
\* were; with omega = 1 the populations become the equilibrium of the stored values
C19_CollideConservesMoments ==
    last.op = "collide" =>
        \A c \in Interior(sim) :
            RGt(Density(old, c), Zero) =>
                LET i == Idx(c[1], c[2], sim.xdim)
                IN  /\ sim.rho[i] = Density(old, c)
                    /\ sim.ux[i] = RDiv(MomentX(old, i), Density(old, c))
                    /\ sim.uy[i] = RDiv(MomentY(old, i), Density(old, c))
                    /\ Density(sim, c) = Density(old, c)
                    /\ MomentX(sim, i) = MomentX(old, i)
                    /\ MomentY(sim, i) = MomentY(old, i)
                    /\ last.args[1] = One =>
                          \A d \in 0..8 :
                              Pop(sim, d, c) =
                                  Equilibrium(d, sim.rho[i], sim.ux[i], sim.uy[i])

\* collide with omega = 25/14 has changed populations of a cell that was out of
\* equilibrium and moving in both directions
C19_Witness ==
    /\ last.op = "collide"
    /\ last.args[1] = Q(25, 14)
    /\ old = OffEquilSim(3, StepXdim, StepYdim)
    /\ \E c \in Interior(sim) :
          /\ MomentX(old, Idx(c[1], c[2], sim.xdim)) # Zero
          /\ MomentY(old, Idx(c[1], c[2], sim.xdim)) # Zero
          /\ \E d \in 0..8 : Pop(sim, d, c) # Pop(old, d, c)
          /\ \E d \in 0..8 :
                Pop(sim, d, c) # Equilibrium(d, Density(old, c),
                                             At(sim.ux, c[1], c[2], sim),
                                             At(sim.uy, c[1], c[2], sim))

-----------------------------------------------------------------------------
(* Properties of computeCurl *)

\* C20: computeCurl() sets curl[x,y] to (uy[x+1,y] - uy[x-1,y]) - (ux[x,y+1] - ux[x,y-1])
\* in every interior cell and changes nothing else: not the curl of the border cells, nor
\* ux, uy, rho, the populations, the barrier map or the accumulators
C20_ComputeCurl ==
    last.op = "computeCurl" =>
        /\ \A c \in Interior(sim) :
              At(sim.curl, c[1], c[2], sim) =
                  RSub(RSub(At(old.uy, c[1] + 1, c[2], old), At(old.uy, c[1] - 1, c[2], old)),
                       RSub(At(old.ux, c[1], c[2] + 1, old), At(old.ux, c[1], c[2] - 1, old)))
        /\ \A c \in EdgeCells(sim) : At(sim.curl, c[1], c[2], sim) = At(old.curl, c[1], c[2], old)
        /\ [sim EXCEPT !.curl = old.curl] = old

\* computeCurl has written a curl other than zero, from four different neighbouring
\* velocities, over the zero initFluid or the constructor left
C20_Witness ==
    /\ last.op = "computeCurl"
    /\ \E c \in Interior(sim) :
          /\ At(sim.curl, c[1], c[2], sim) \notin {Zero, NaN}
          /\ At(old.curl, c[1], c[2], old) = Zero
          /\ At(old.uy, c[1] + 1, c[2], old) # At(old.uy, c[1] - 1, c[2], old)
          /\ At(old.ux, c[1], c[2] + 1, old) # At(old.ux, c[1], c[2] - 1, old)
          /\ At(old.uy, c[1] + 1, c[2], old) # At(old.uy, c[1], c[2], old)

-----------------------------------------------------------------------------
(* Properties of the bounce-back pass *)

\* the populations as the four sweeps of stream() leave them, before the bounce-back pass
AfterSweeps(s) == streamSweeps(resetAccumulators(s))

\* the W slot of every barrier cell of mid, as the sweeps left it, is in slot nE of the
\* cell dx columns from the barrier cell in s
BouncedFromEast(mid, s, dx) ==
    \A c \in BarrierCells(mid) : Pop(s, 3, <<c[1] + dx, c[2]>>) = Pop(mid, 4, c)

\* C21: the bounce-back pass of stream() writes the value that arrived at a barrier cell
\* (x, y) from the east, the one in its W slot after the sweeps, to nE of the cell
\* (x-1, y), its west neighbour
C21_BounceToWestNeighbour ==
    last.op = "stream" => BouncedFromEast(AfterSweeps(old), sim, -1)

\* the bounce-back pass of stream() writes the value in the W slot of a barrier cell
\* (x, y) after the sweeps, which came from (x+1, y), to nE of the cell (x+1, y), its east
\* neighbour: it goes back to the cell it came from
C21_BounceToEastNeighbour ==
    last.op = "stream" =>
        /\ BouncedFromEast(AfterSweeps(old), sim, 1)
        /\ \A c \in BarrierCells(old) :
              Pop(sim, 3, <<c[1] + 1, c[2]>>) = Pop(old, 4, <<c[1] + 1, c[2]>>)

\* stream() has bounced a value back from a barrier cell whose east neighbour is a
\* barrier cell too, and nE of its west neighbour holds what the sweep moved there
C21_Witness ==
    /\ last.op = "stream"
    /\ \E c \in BarrierCells(old) :
          /\ IsBarrier(old, c[1] + 1, c[2])
          /\ Pop(sim, 3, <<c[1] + 1, c[2]>>) = Pop(old, 4, <<c[1] + 1, c[2]>>)
          /\ Pop(sim, 3, <<c[1] - 1, c[2]>>) = Pop(old, 3, <<c[1] - 2, c[2]>>)
          /\ Pop(sim, 3, <<c[1] - 1, c[2]>>) # Pop(old, 4, <<c[1] + 1, c[2]>>)

-----------------------------------------------------------------------------
(* Properties of the sensor *)

\* the fields of the solver that the claim compares: everything but the sensor position
\* and the tracers, whose new positions depend on Math.random()
Physics(s) ==
    [n0 |-> s.n0, nN |-> s.nN, nS |-> s.nS, nE |-> s.nE, nW |-> s.nW,
     nNE |-> s.nNE, nSE |-> s.nSE, nNW |-> s.nNW, nSW |-> s.nSW,
     rho |-> s.rho, ux |-> s.ux, uy |-> s.uy, curl |-> s.curl, barrier |-> s.barrier,
     barrierCount |-> s.barrierCount, barrierxSum |-> s.barrierxSum,
     barrierySum |-> s.barrierySum, barrierFx |-> s.barrierFx, barrierFy |-> s.barrierFy]

\* C22: two runs that differ only in the sensor position and are given the same solver
\* calls have the same populations, rho, ux, uy, curl, barrier map and accumulators
\* after every call, and checkStability() returns the same in both
C22_SensorHasNoEffect ==
    twin # << >> =>
        /\ Physics(twin) = Physics(sim)
        /\ checkStability(twin) = checkStability(sim)
        /\ last.op = "checkStability" => last.ret[1] = last.ret[2]

\* the two runs have sensors at different positions, one of them outside the grid, and
\* have streamed around a barrier cell
C22_Witness ==
    /\ twin # << >>
    /\ last.op = "stream"
    /\ <<twin.sensorX, twin.sensorY>> = <<-1, twin.ydim>>
    /\ <<sim.sensorX, sim.sensorY>> = <<sim.xdim \div 2, sim.ydim \div 2>>
    /\ sim.barrierCount = 1
    /\ Physics(sim) # Physics(old)

-----------------------------------------------------------------------------
(* Properties of pushFluid *)

\* the cells the claim names: three above and three below the centre, and the block of
\* five columns and three rows around it
PushRegion(x, y) ==
    {<<x + dx, y + 2>> : dx \in (-1)..1} \cup {<<x + dx, y - 2>> : dx \in (-1)..1}
    \cup {<<x + dx, y + dy>> : dx \in (-2)..2, dy \in (-1)..1}

\* cell c of s holds the equilibrium of velocity (vx, vy) at the density r
HoldsEquilibrium(s, c, r, vx, vy) ==
    /\ At(s.rho, c[1], c[2], s) = r
    /\ At(s.ux, c[1], c[2], s) = vx
    /\ At(s.uy, c[1], c[2], s) = vy
    /\ \A d \in 0..8 : Pop(s, d, c) = Equilibrium(d, r, vx, vy)

\* the object s with the populations, rho, ux and uy of o
WithFluidOf(s, o) ==
    [s EXCEPT !.n0 = o.n0, !.nN = o.nN, !.nS = o.nS, !.nE = o.nE, !.nW = o.nW,
              !.nNE = o.nNE, !.nSE = o.nSE, !.nNW = o.nNW, !.nSW = o.nSW,
              !.rho = o.rho, !.ux = o.ux, !.uy = o.uy]

\* C23: when the guard of pushFluid(x, y, ux, uy) passes, exactly the 21 cells of the
\* region hold afterwards the equilibrium of (ux, uy) at the rho each had, every other
\* cell, the barrier map and the tracers are as before; when it fails nothing changes
C23_PushFluidEffect ==
    last.op = "pushFluid" =>
        LET x == last.args[1]
            y == last.args[2]
        IN  IF x > 3 /\ x < sim.xdim - 4 /\ y > 3 /\ y < sim.ydim - 4
            THEN /\ Cardinality(PushRegion(x, y)) = 21
                 /\ PushRegion(x, y) \subseteq AllCells(sim)
                 /\ \A c \in PushRegion(x, y) :
                       HoldsEquilibrium(sim, c, At(old.rho, c[1], c[2], old),
                                        last.args[3], last.args[4])
                 /\ ChangedCells(old, sim) \subseteq PushRegion(x, y)
                 /\ WithFluidOf(sim, old) = old
            ELSE sim = old

\* a push at (5, 4) of populations that were in equilibrium nowhere has changed all 21
\* cells of the region
C23_Witness ==
    /\ last.op = "pushFluid"
    /\ last.args[1] = 5 /\ last.args[2] = 4
    /\ ChangedCells(old, sim) = PushRegion(5, 4)
    /\ \E c \in PushRegion(5, 4) : At(old.rho, c[1], c[2], old) # One

-----------------------------------------------------------------------------
(* Properties of initFluid *)

\* C24: after initFluid(u0), from any state, every cell of the grid, edge and barrier
\* cells included, holds the equilibrium of rho = 1, ux = u0, uy = 0 and curl 0, so
\* checkStability() returns true; the barrier map and the tracers are as before
C24_InitFluidRecovers ==
    last.op = "initFluid" =>
        /\ \A c \in AllCells(sim) :
              /\ HoldsEquilibrium(sim, c, One, last.args[1], Zero)
              /\ At(sim.curl, c[1], c[2], sim) = Zero
        /\ checkStability(sim) = TRUE
        /\ sim.barrier = old.barrier
        /\ sim.tracerX = old.tracerX /\ sim.tracerY = old.tracerY

\* initFluid(0.12) has replaced a flow that failed checkStability, with a barrier cell
\* in the row scanned, tracers placed, and a curl other than zero
C24_Witness ==
    /\ last.op = "initFluid"
    /\ last.args[1] = Q(3, 25)
    /\ checkStability(old) = FALSE
    /\ BarrierCells(sim) # {}
    /\ \E c \in Interior(old) : At(old.curl, c[1], c[2], old) # Zero
    /\ \E k \in DOMAIN sim.tracerX : sim.tracerX[k] # Zero

-----------------------------------------------------------------------------
(* Index safety of stream() *)

CellsOf(order) == {order[k] : k \in DOMAIN order}

Shifted(c, dx, dy) == <<c[1] + dx, c[2] + dy>>

\* the cells whose array elements the four sweeps read, by the index expressions of
\* the loop bodies
sweepReads(s) ==
    UNION { {Shifted(c, 0, -1), Shifted(c, 1, -1)} : c \in CellsOf(OrderNNW(s)) }
    \cup UNION { {Shifted(c, -1, 0), Shifted(c, -1, -1)} : c \in CellsOf(OrderENE(s)) }
    \cup UNION { {Shifted(c, 0, 1), Shifted(c, -1, 1)} : c \in CellsOf(OrderSSE(s)) }
    \cup UNION { {Shifted(c, 1, 0), Shifted(c, 1, 1)} : c \in CellsOf(OrderWSW(s)) }

\* the cells the four sweeps write
sweepWrites(s) ==
    CellsOf(OrderNNW(s)) \cup CellsOf(OrderENE(s))
        \cup CellsOf(OrderSSE(s)) \cup CellsOf(OrderWSW(s))

\* the cells the bounce-back pass reads: the barrier flag of every cell scanned, and the
\* populations of those that are barrier cells
bounceReads(s) == CellsOf(OrderBounce(s))

\* the cells the bounce-back pass writes: the eight neighbours of every barrier cell scanned
bounceWrites(s) ==
    UNION { {Shifted(c, dx, dy) : dx \in {-1, 0, 1}, dy \in {-1, 0, 1}} \ {c} :
              c \in {b \in CellsOf(OrderBounce(s)) : Rd(s.barrier, Idx(b[1], b[2], s.xdim)) # 0} }

streamTouches(s) == sweepReads(s) \cup sweepWrites(s) \cup bounceReads(s) \cup bounceWrites(s)

\* the element of cell c exists in the arrays, and c is a cell of the grid
InGrid(s, c) == c \in AllCells(s) /\ Idx(c[1], c[2], s.xdim) \in DOMAIN s.nN

\* s with the directional populations and the barrier accumulators of o
WithStreamedOf(s, o) ==
    [s EXCEPT !.nN = o.nN, !.nS = o.nS, !.nE = o.nE, !.nW = o.nW,
              !.nNE = o.nNE, !.nNW = o.nNW, !.nSE = o.nSE, !.nSW = o.nSW,
              !.barrierCount = o.barrierCount, !.barrierxSum = o.barrierxSum,
              !.barrierySum = o.barrierySum, !.barrierFx = o.barrierFx,
              !.barrierFy = o.barrierFy]

\* C25: with every barrier cell inside the 2-cell margin, every element stream() reads or
\* writes is an element of a cell of the grid, the cells written are interior cells, and
\* after the call n0, rho, ux, uy, the barrier map, the tracers and every population of
\* an edge cell are as before
C25_StreamIndexSafety ==
    /\ (\A b \in BarrierCells(sim) : InsideMargin(sim, b[1], b[2])) =>
          /\ \A c \in streamTouches(sim) : InGrid(sim, c)
          /\ sweepWrites(sim) \cup bounceWrites(sim) \subseteq Interior(sim)
    /\ (last.op = "stream" /\ \A b \in BarrierCells(old) : InsideMargin(old, b[1], b[2])) =>
          /\ WithStreamedOf(sim, old) = old
          /\ \A c \in EdgeCells(sim), d \in 0..8 : Pop(sim, d, c) = Pop(old, d, c)

\* stream() has run with two barrier cells, one of them on the margin next to the corner
\* column and row, and has changed a population of a cell next to the edge
C25_Witness ==
    /\ last.op = "stream"
    /\ Cardinality(BarrierCells(old)) = 2
    /\ IsBarrier(old, 2, 2)
    /\ \E d \in 1..8 : Pop(sim, d, <<1, 1>>) # Pop(old, d, <<1, 1>>)

-----------------------------------------------------------------------------
(* The number of simulate callbacks pending *)

\* C26, as claimed: under every interleaving of Run/Pause clicks, unstable frames and
\* callbacks, at most one simulate callback is pending
C26_SingleLoop == ui # << >> => ui.pending <= 1

\* a click on Run has started a frame, and scheduled a callback, while the callback
\* scheduled before the preceding Pause was still pending: two loops are running
C26_Witness ==
    /\ ui # << >>
    /\ last.op = "startStop"
    /\ last.args = <<FALSE, 1>>
    /\ ui.running
    /\ ui.pending = 2

-----------------------------------------------------------------------------
(* The cell moveTracers samples *)

\* every cell's velocity has magnitude below 1
SlowFlow(s) ==
    \A i \in DOMAIN s.ux :
        /\ IsFinite(s.ux[i]) /\ IsFinite(s.uy[i])
        /\ RLt(RAdd(RMul(s.ux[i], s.ux[i]), RMul(s.uy[i], s.uy[i])), One)

\* C27, as claimed: from the positions of initTracers(true), with velocities of magnitude
\* below 1, after any number of moveTracers(true) calls the position of every tracer
\* rounds to a cell of the grid
C27_TracerSamplingInGrid ==
    SlowFlow(sim) => \A k \in DOMAIN sim.tracerX : RoundsIntoGrid(sim, k)

\* in a flow of magnitude below 1, moveTracers(true) has carried a tracer over the right
\* edge and put it at x = 0 and y = random * ydim < ydim, which rounds to row ydim
C27_Witness ==
    /\ SlowFlow(sim)
    /\ last.op = "moveTracers" /\ last.args[1]
    /\ \E k \in DOMAIN sim.tracerX :
          /\ RoundsIntoGrid(old, k)
          /\ moveTracersWraps(old, moveTracersAdvance(old, k))
          /\ sim.tracerX[k] = Zero
          /\ RLt(sim.tracerY[k], Num(sim.ydim))
          /\ Round(sim.tracerY[k]) = sim.ydim

-----------------------------------------------------------------------------
(* The cells removeBarrier reaches *)

\* C28, as claimed: removeBarrier(x, y), for all integers x and y, clears the flag of no
\* cell other than (x, y), clears the flag of (x, y) when it is set, changes nothing when
\* it is not, and changes nothing but the barrier map
C28_RemoveBarrierOnlyNamedCell ==
    last.op = "removeBarrier" =>
        LET c == <<last.args[1], last.args[2]>>
        IN  /\ BarrierCells(old) \ BarrierCells(sim) \subseteq {c}
            /\ c \in BarrierCells(old) => c \notin BarrierCells(sim)
            /\ c \notin BarrierCells(old) => sim = old
            /\ [sim EXCEPT !.barrier = old.barrier] = old

\* removeBarrier was called with an x left of the grid, and a barrier cell of the row
\* above the one named has lost its flag
C28_Witness ==
    /\ last.op = "removeBarrier"
    /\ last.args[1] < 0
    /\ \E c \in BarrierCells(old) \ BarrierCells(sim) :
          /\ c[2] = last.args[2] - 1
          /\ c[1] = last.args[1] + old.xdim

-----------------------------------------------------------------------------
(* setBoundaries once per batch *)

\* C29: after every step of a batch that began with one setBoundaries(u0) call, the object
\* equals that of the run that called setBoundaries(u0) before each step: populations,
\* rho, ux, uy, accumulators and all the rest
C29_OncePerBatch ==
    last.op = "simulateStep" => sim = twin.sim

\* the second step of a batch has run, with a barrier and a push, and a setBoundaries call
\* between the two steps would have changed the east column
C29_Witness ==
    /\ last.op = "simulateStep"
    /\ twin.steps = 2
    /\ BarrierCells(sim) # {}
    /\ last.args[2] # << >>
    /\ \E y \in 1..(old.ydim - 2) :
          Pop(setBoundaries(old, twin.u0), 4, <<old.xdim - 1, y>>) # Pop(old, 4, <<old.xdim - 1, y>>)

-----------------------------------------------------------------------------
(* Properties of Salmon.update *)

\* the position the salmon would take: where it is, plus the flow at its nearest cell,
\* plus its stroke, clamped to the grid
SalmonTarget(sal, s, input) ==
    LET c == NearestCell(s, sal.x, sal.y)
        stroke == updateSwim(sal, updateDesired(input))
    IN  [x |-> RMax(Zero, RMin(Num(s.xdim - 1),
                   RAdd(RAdd(sal.x, At(s.ux, c[1], c[2], s)), stroke.ux))),
         y |-> RMax(Zero, RMin(Num(s.ydim - 1),
                   RAdd(RAdd(sal.y, At(s.uy, c[1], c[2], s)), stroke.uy)))]

\* C30: with a barrier map that does not change, from a start inside the grid on a cell
\* that is no barrier, after every sequence of update calls the salmon is inside
\* [0, xdim-1] x [0, ydim-1] and the cell nearest to it is no barrier; update leaves the
\* position as it was when the cell nearest to the clamped target is a barrier, and
\* otherwise moves the salmon to the target
C30_SalmonStaysClear ==
    /\ RLe(Zero, ui.salmon.x) /\ RLe(ui.salmon.x, Num(sim.xdim - 1))
    /\ RLe(Zero, ui.salmon.y) /\ RLe(ui.salmon.y, Num(sim.ydim - 1))
    /\ NearestCell(sim, ui.salmon.x, ui.salmon.y) \notin BarrierCells(sim)
    /\ last.op = "update" =>
          LET before == last.args[2]
              p == SalmonTarget(before, sim, last.args[1])
          IN  IF NearestCell(sim, p.x, p.y) \in BarrierCells(sim)
              THEN ui.salmon.x = before.x /\ ui.salmon.y = before.y
              ELSE ui.salmon.x = p.x /\ ui.salmon.y = p.y

\* an update whose target was a barrier cell has left the salmon where it was, after an
\* update that moved it
C30_Witness ==
    /\ last.op = "update"
    /\ LET before == last.args[2]
           p == SalmonTarget(before, sim, last.args[1])
       IN  /\ NearestCell(sim, p.x, p.y) \in BarrierCells(sim)
           /\ <<p.x, p.y>> # <<before.x, before.y>>
           /\ ui.salmon.x = before.x /\ ui.salmon.y = before.y
           /\ <<before.x, before.y>> \notin SalmonStarts(sim)

====
